---- MODULE Spec2Model ----
(***************************************************************************)
(* Response-assessment pipeline of app/assess.py: process_ai_response with *)
(* load_rules_from_yaml and filter_rules_by_scene, and the exception       *)
(* handling of call_vision_api of app/models.py that feeds it.             *)
(*                                                                         *)
(* Python values are tagged records.  A str is a sequence of symbols (so   *)
(* that the substring test of filter_rules_by_scene is computable), a dict *)
(* is a function from str keys to values, a float is kept in tenths.  The  *)
(* JSON text handed to process_ai_response is its sequence of lexical      *)
(* tokens, and json.loads is a recursive-descent parser over that          *)
(* sequence.                                                               *)
(***************************************************************************)
EXTENDS Integers, Sequences, FiniteSets, TLC

VARIABLES
    rule_file,            \* the rule document app/rules.yml, as found on disk
    json_string,          \* per call: argument json_string (token sequence)
    scene_tags,           \* per call: argument scene_tags (None or a list)
    selected_rule_packs,  \* per call: argument selected_rule_packs
    pc,                   \* per call: position in process_ai_response
    data,                 \* per call: local `data`
    all_rules,            \* per call: local `all_rules`
    findings,             \* per call: local `findings` (the list being scored)
    idx,                  \* per call: position of the for-loop over findings
    result,               \* per call: what the call returned or raised
    response,             \* per call: what the chat-completion request produced
    log,                  \* per call: the steps taken so far, in order (history)
    MODEL_CONFIGS,        \* models.py: the module-level parameter defaults
    model,                \* per call: argument model of call_vision_api
    custom_params,        \* per call: argument custom_params of call_vision_api
    api_params,           \* per call: the parameters handed to the request
    rule_pack_selection,  \* main.py: the rule packs chosen in the sidebar
    stage1_scene          \* per call: local `scene_analysis` of two_stage_analysis

vars == <<rule_file, json_string, scene_tags, selected_rule_packs, pc, data,
          all_rules, findings, idx, result, response, log, MODEL_CONFIGS, model,
          custom_params, api_params, rule_pack_selection, stage1_scene>>

\* what process_ai_response and the functions it calls never touch
apiVars == <<MODEL_CONFIGS, model, custom_params, api_params, rule_pack_selection,
             stage1_scene>>

-----------------------------------------------------------------------------
(* Python values *)

PyNone == [t |-> "null"]

PyBool(b) == [t |-> "bool", b |-> b]

PyInt(n) == [t |-> "int", i |-> n]

PyFloat(tenths) == [t |-> "float", tenths |-> tenths]

\* float('inf') and float('nan')
PyInf == [t |-> "inf"]

PyNan == [t |-> "nan"]

PyStr(s) == [t |-> "str", s |-> s]

PyList(l) == [t |-> "list", l |-> l]

PyDict(d) == [t |-> "dict", d |-> d]

EmptyDict == PyDict(<<>>)

EmptyList == PyList(<<>>)

EmptyStr == PyStr(<<>>)

\* bool(v): Python truthiness, as used by `if x:` and `x or y`
Truthy(v) ==
    CASE v.t = "null"  -> FALSE
      [] v.t = "bool"  -> v.b
      [] v.t = "int"   -> v.i # 0
      [] v.t = "float" -> v.tenths # 0
      [] v.t = "str"   -> Len(v.s) > 0
      [] v.t = "list"  -> Len(v.l) > 0
      [] v.t = "dict"  -> DOMAIN v.d # {}

\* x or y
PyOr(x, y) == IF Truthy(x) THEN x ELSE y

\* d.get(key, default) on a value that is a dict
DictGet(d, key, default) == IF key \in DOMAIN d.d THEN d.d[key] ELSE default

\* d[key] = value
DictSet(d, key, value) ==
    PyDict([k \in DOMAIN d.d \cup {key} |-> IF k = key THEN value ELSE d.d[k]])

\* key in d
HasKey(d, key) == d.t = "dict" /\ key \in DOMAIN d.d

\* outcomes of a call or of a helper: a returned value or a raised exception
Return(v) == [kind |-> "return", value |-> v]

Raise(e) == [kind |-> "raise", exc |-> e]

-----------------------------------------------------------------------------
(* JSON text: tokens, json.dumps and json.loads *)

Punct(c) == [k |-> c, v |-> PyNone]

Lit(v) == [k |-> "lit", v |-> v]

IsScalar(v) == v.t \in {"null", "bool", "int", "float", "str"}

\* the keys of a dict in some fixed order
RECURSIVE KeySeq(_)
KeySeq(S) ==
    IF S = {} THEN <<>>
    ELSE LET k == CHOOSE x \in S : TRUE IN <<k>> \o KeySeq(S \ {k})

\* json.dumps(v)
RECURSIVE json_dumps(_)
RECURSIVE DumpItems(_, _)
RECURSIVE DumpMembers(_, _, _)
DumpItems(l, n) ==
    IF n > Len(l) THEN <<>>
    ELSE (IF n > 1 THEN <<Punct(",")>> ELSE <<>>)
         \o json_dumps(l[n]) \o DumpItems(l, n + 1)

DumpMembers(d, ks, n) ==
    IF n > Len(ks) THEN <<>>
    ELSE (IF n > 1 THEN <<Punct(",")>> ELSE <<>>)
         \o <<Lit(PyStr(ks[n])), Punct(":")>> \o json_dumps(d[ks[n]])
         \o DumpMembers(d, ks, n + 1)

json_dumps(v) ==
    CASE IsScalar(v)  -> <<Lit(v)>>
      [] v.t = "list" -> <<Punct("[")>> \o DumpItems(v.l, 1) \o <<Punct("]")>>
      [] v.t = "dict" -> <<Punct("{")>> \o DumpMembers(v.d, KeySeq(DOMAIN v.d), 1)
                         \o <<Punct("}")>>

\* json.loads: a parse step yields [ok, v, pos]; ok = FALSE is JSONDecodeError
ParseFail == [ok |-> FALSE, v |-> PyNone, pos |-> 0]

ParseOk(v, pos) == [ok |-> TRUE, v |-> v, pos |-> pos]

TokIs(toks, p, c) == p <= Len(toks) /\ toks[p].k = c

RECURSIVE ParseValue(_, _)
RECURSIVE ParseItems(_, _, _)
RECURSIVE ParseMembers(_, _, _)
\* after "[" and at least one parsed item: "," item ... "]"
ParseItems(toks, p, acc) ==
    IF TokIs(toks, p, "]") THEN ParseOk(PyList(acc), p + 1)
    ELSE IF TokIs(toks, p, ",")
         THEN LET r == ParseValue(toks, p + 1) IN
              IF r.ok THEN ParseItems(toks, r.pos, Append(acc, r.v))
              ELSE ParseFail
         ELSE ParseFail

\* one member `"key" : value` at p, then "," member ... "}"; a repeated key
\* keeps its last value
ParseMembers(toks, p, acc) ==
    IF /\ TokIs(toks, p, "lit")
       /\ toks[p].v.t = "str"
       /\ TokIs(toks, p + 1, ":")
    THEN LET r == ParseValue(toks, p + 2) IN
         IF ~r.ok THEN ParseFail
         ELSE LET d == DictSet(acc, toks[p].v.s, r.v) IN
              IF TokIs(toks, r.pos, "}") THEN ParseOk(d, r.pos + 1)
              ELSE IF TokIs(toks, r.pos, ",")
                   THEN ParseMembers(toks, r.pos + 1, d)
                   ELSE ParseFail
    ELSE ParseFail

ParseValue(toks, p) ==
    IF p > Len(toks) THEN ParseFail
    ELSE CASE toks[p].k = "lit" -> ParseOk(toks[p].v, p + 1)
           [] toks[p].k = "["   ->
                IF TokIs(toks, p + 1, "]") THEN ParseOk(EmptyList, p + 2)
                ELSE LET r == ParseValue(toks, p + 1) IN
                     IF r.ok THEN ParseItems(toks, r.pos, <<r.v>>)
                     ELSE ParseFail
           [] toks[p].k = "{"   ->
                IF TokIs(toks, p + 1, "}") THEN ParseOk(EmptyDict, p + 2)
                ELSE ParseMembers(toks, p + 1, EmptyDict)
           [] OTHER             -> ParseFail

\* json.loads(s): the whole text must be one value (else "Extra data")
json_loads(toks) ==
    LET r == ParseValue(toks, 1) IN
    IF r.ok /\ r.pos = Len(toks) + 1 THEN Return(r.v)
    ELSE Raise("JSONDecodeError")

-----------------------------------------------------------------------------
(* Python built-ins used by assess.py *)

Digits == ("0" :> 0) @@ ("1" :> 1) @@ ("2" :> 2) @@ ("3" :> 3) @@ ("4" :> 4)
          @@ ("5" :> 5) @@ ("6" :> 6) @@ ("7" :> 7) @@ ("8" :> 8) @@ ("9" :> 9)

\* the decimal value of a sequence of digit symbols
RECURSIVE DecimalValue(_)
DecimalValue(s) ==
    IF s = <<>> THEN 0
    ELSE 10 * DecimalValue(SubSeq(s, 1, Len(s) - 1)) + Digits[s[Len(s)]]

\* a conversion that answers 0 where int() raises
PyIntOfLenient(v) ==
    CASE v.t = "int"   -> Return(v.i)
      [] v.t = "bool"  -> Return(IF v.b THEN 1 ELSE 0)
      [] v.t = "float" -> Return(IF v.tenths >= 0 THEN v.tenths \div 10
                                 ELSE -((-v.tenths) \div 10))
      [] v.t = "str"   -> IF Len(v.s) > 0 /\ \A n \in 1..Len(v.s) : v.s[n] \in DOMAIN Digits
                          THEN Return(DecimalValue(v.s))
                          ELSE Return(0)
      [] OTHER         -> Return(0)

\* int(v): identity on int, 0/1 on bool, truncation towards zero on float,
\* decimal parsing on str (ValueError when it is no numeral), TypeError else
PyIntOf(v) ==
    CASE v.t = "int"   -> Return(v.i)
      [] v.t = "bool"  -> Return(IF v.b THEN 1 ELSE 0)
      [] v.t = "float" -> Return(IF v.tenths >= 0 THEN v.tenths \div 10
                                 ELSE -((-v.tenths) \div 10))
      [] v.t = "str"   -> IF Len(v.s) > 0 /\ \A n \in 1..Len(v.s) : v.s[n] \in DOMAIN Digits
                          THEN Return(DecimalValue(v.s))
                          ELSE Raise("ValueError")
      [] v.t = "inf"   -> Raise("OverflowError")
      [] v.t = "nan"   -> Raise("ValueError")
      [] OTHER         -> Raise("TypeError")

\* iter(v): the items a for-loop or a generator visits
Iterate(v) ==
    CASE v.t = "list" -> Return(v.l)
      [] v.t = "str"  -> Return([n \in 1..Len(v.s) |-> PyStr(<<v.s[n]>>)])
      [] v.t = "dict" -> Return([n \in 1..Cardinality(DOMAIN v.d) |->
                                    PyStr(KeySeq(DOMAIN v.d)[n])])
      [] OTHER        -> Raise("TypeError")

\* p occurs in s as a contiguous run of symbols
IsSubstring(p, s) ==
    \E n \in 0..(Len(s) - Len(p)) : SubSeq(s, n + 1, n + Len(p)) = p

\* x in container
PyIn(x, container) ==
    CASE container.t = "str"  -> IF x.t = "str"
                                 THEN Return(IsSubstring(x.s, container.s))
                                 ELSE Raise("TypeError")
      [] container.t = "list" -> Return(\E n \in 1..Len(container.l) : container.l[n] = x)
      [] container.t = "dict" -> IF x.t \in {"list", "dict"} THEN Raise("TypeError")
                                 ELSE Return(x.t = "str" /\ x.s \in DOMAIN container.d)
      [] OTHER                -> Raise("TypeError")

\* any(x in container for x in xs), from item n on: stops at the first True
\* and at the first exception
RECURSIVE AnyIn(_, _, _)
AnyIn(xs, container, n) ==
    IF n > Len(xs) THEN Return(FALSE)
    ELSE LET r == PyIn(xs[n], container) IN
         IF r.kind = "raise" THEN r
         ELSE IF r.value THEN Return(TRUE)
         ELSE AnyIn(xs, container, n + 1)

\* lambda x: x.get("risk_score", 0), the sort key of process_ai_response
SortKey(x) == DictGet(x, <<"risk_score">>, PyInt(0)).i

\* a sort that puts x before the items of equal key: what sorting ascending
\* and reversing the list would do
RECURSIVE InsertDescendingUnstable(_, _)
InsertDescendingUnstable(acc, x) ==
    IF acc = <<>> THEN <<x>>
    ELSE IF SortKey(Head(acc)) > SortKey(x)
         THEN <<Head(acc)>> \o InsertDescendingUnstable(Tail(acc), x)
         ELSE <<x>> \o acc

\* the place of x in a list sorted by descending key: behind every item
\* whose key is not smaller, so that equal keys keep their order
RECURSIVE InsertDescending(_, _)
InsertDescending(acc, x) ==
    IF acc = <<>> THEN <<x>>
    ELSE IF SortKey(Head(acc)) >= SortKey(x)
         THEN <<Head(acc)>> \o InsertDescending(Tail(acc), x)
         ELSE <<x>> \o acc

\* sorted(items, key=SortKey, reverse=True) of the first n items
RECURSIVE SortedDescending(_, _)
SortedDescending(items, n) ==
    IF n = 0 THEN <<>>
    ELSE InsertDescending(SortedDescending(items, n - 1), items[n])

-----------------------------------------------------------------------------
(* app/assess.py: the rule store and the rule filter *)

\* lines 17-19, the body of the try: open the file, yaml.safe_load it, and
\* data.get('rules', []); a document that is no mapping (an empty file gives
\* None) has no get
LoadRulesBody(file) ==
    IF ~file.exists THEN Raise("FileNotFoundError")
    ELSE IF ~file.readable THEN Raise("PermissionError")
    ELSE IF ~file.wellformed THEN Raise("YAMLError")
    ELSE IF file.doc.t # "dict" THEN Raise("AttributeError")
    ELSE Return(DictGet(file.doc, <<"rules">>, EmptyList))

\* a handler that catches only the missing file
load_rules_from_yamlOnlyMissing(file) ==
    LET r == LoadRulesBody(file) IN
    IF r.kind = "raise" /\ r.exc = "FileNotFoundError" THEN Return(EmptyList) ELSE r

\* a handler that answers a failure with None
load_rules_from_yamlNone(file) ==
    LET r == LoadRulesBody(file) IN
    IF r.kind = "raise" THEN Return(PyNone) ELSE r

\* lines 16-22: the body under `except Exception`, which catches every
\* exception the body raises and returns []
load_rules_from_yaml(file) ==
    LET r == LoadRulesBody(file) IN
    IF r.kind = "raise" THEN Return(EmptyList) ELSE r

\* a loop body whose two tests are separate ifs: a rule passing both is
\* appended twice
RECURSIVE FilterFromTwoIfs(_, _, _, _, _)
FilterFromTwoIfs(rules, n, tags, packs, acc) ==
    IF n > Len(rules) THEN Return(PyList(acc))
    ELSE LET rule == rules[n] IN
         IF rule.t # "dict" THEN Raise("AttributeError")
         ELSE LET rule_domain == DictGet(rule, <<"domain">>, EmptyStr)
                  packIter    == Iterate(packs)
                  packMatch   == IF packIter.kind = "raise" THEN packIter
                                 ELSE AnyIn(packIter.value, rule_domain, 1)
                  tagIter     == Iterate(tags)
                  cueMatch    == IF tagIter.kind = "raise" THEN tagIter
                                 ELSE AnyIn(tagIter.value,
                                            DictGet(rule, <<"detection_cues">>, EmptyList), 1)
                  first       == IF packMatch.kind = "return" /\ packMatch.value
                                 THEN Append(acc, rule) ELSE acc
              IN
              IF packMatch.kind = "raise" THEN packMatch
              ELSE IF ~Truthy(tags)
                   THEN FilterFromTwoIfs(rules, n + 1, tags, packs, first)
              ELSE IF cueMatch.kind = "raise" THEN cueMatch
              ELSE IF cueMatch.value
                   THEN FilterFromTwoIfs(rules, n + 1, tags, packs, Append(first, rule))
              ELSE FilterFromTwoIfs(rules, n + 1, tags, packs, first)

\* the loop body of filter_rules_by_scene from rule n on; acc is filtered_rules
RECURSIVE FilterFrom(_, _, _, _, _)
FilterFrom(rules, n, tags, packs, acc) ==
    IF n > Len(rules) THEN Return(PyList(acc))
    ELSE LET rule == rules[n] IN
         IF rule.t # "dict" THEN Raise("AttributeError")
         ELSE LET rule_domain == DictGet(rule, <<"domain">>, EmptyStr)
                  packIter    == Iterate(packs)
                  packMatch   == IF packIter.kind = "raise" THEN packIter
                                 ELSE AnyIn(packIter.value, rule_domain, 1)
                  tagIter     == Iterate(tags)
                  cueMatch    == IF tagIter.kind = "raise" THEN tagIter
                                 ELSE AnyIn(tagIter.value,
                                            DictGet(rule, <<"detection_cues">>, EmptyList), 1)
              IN
              IF packMatch.kind = "raise" THEN packMatch
              ELSE IF packMatch.value
                   THEN FilterFrom(rules, n + 1, tags, packs, Append(acc, rule))
              ELSE IF ~Truthy(tags)
                   THEN FilterFrom(rules, n + 1, tags, packs, acc)
              ELSE IF cueMatch.kind = "raise" THEN cueMatch
              ELSE IF cueMatch.value
                   THEN FilterFrom(rules, n + 1, tags, packs, Append(acc, rule))
              ELSE FilterFrom(rules, n + 1, tags, packs, acc)

filter_rules_by_scene(rules, tags, packs) ==
    LET it == Iterate(rules) IN
    IF it.kind = "raise" THEN it ELSE FilterFrom(it.value, 1, tags, packs, <<>>)

\* [rule["rule_id"] for rule in filtered_rules], from rule n on
RECURSIVE RuleIds(_, _)
RuleIds(rules, n) ==
    IF n > Len(rules) THEN Return(<<>>)
    ELSE IF ~HasKey(rules[n], <<"rule_id">>) THEN Raise("KeyError")
    ELSE LET rest == RuleIds(rules, n + 1) IN
         IF rest.kind = "raise" THEN rest
         ELSE Return(<<rules[n].d[<<"rule_id">>]>> \o rest.value)

-----------------------------------------------------------------------------
(* app/assess.py: process_ai_response, one action per block of its body *)

Calls == DOMAIN pc

\* the fixed message of line 68 (a Japanese sentence: "the AI's response is
\* not valid JSON"), one symbol here
InvalidJsonMessage == PyStr(<<"AI response is not valid JSON">>)

\* an error object that forgets the text
ParseErrorObjectNoRaw(text) ==
    PyDict((<<"error">> :> InvalidJsonMessage) @@ (<<"raw_response">> :> EmptyStr))

\* the dict returned when json.loads fails; raw_response is the text itself
ParseErrorObject(text) ==
    PyDict((<<"error">> :> InvalidJsonMessage) @@ (<<"raw_response">> :> PyStr(text)))

Finish(c, outcome) ==
    /\ result' = [result EXCEPT ![c] = outcome]
    /\ pc' = [pc EXCEPT ![c] = "done"]

\* the history of a call grows by the steps it has just taken
Logged(c, steps) == log' = [log EXCEPT ![c] = log[c] \o steps]

\* lines 63-68: data = json.loads(json_string), JSONDecodeError caught
ParseJson(c) ==
    /\ pc[c] = "parse"
    /\ Logged(c, <<"parse">>)
    /\ LET r == json_loads(json_string[c]) IN
       IF r.kind = "raise"
       THEN /\ Finish(c, Return(ParseErrorObject(json_string[c])))
            /\ UNCHANGED data
       ELSE /\ data' = [data EXCEPT ![c] = r.value]
            /\ pc' = [pc EXCEPT ![c] = "check_error"]
            /\ UNCHANGED result
    /\ UNCHANGED <<rule_file, apiVars, response, json_string, scene_tags, selected_rule_packs,
                   all_rules, findings, idx>>

\* lines 70-71: if data.get("error"): return data
CheckError(c) ==
    /\ pc[c] = "check_error"
    /\ Logged(c, <<"check_error">>)
    /\ IF data[c].t # "dict" THEN Finish(c, Raise("AttributeError"))
       ELSE IF Truthy(DictGet(data[c], <<"error">>, PyNone))
            THEN Finish(c, Return(data[c]))
            ELSE /\ pc' = [pc EXCEPT ![c] = "scene"]
                 /\ UNCHANGED result
    /\ UNCHANGED <<rule_file, apiVars, response, json_string, scene_tags, selected_rule_packs,
                   data, all_rules, findings, idx>>

\* scene fields whose scene_tags default to the caller's fallback tags
WithSceneFieldsFallbackDefault(d, fallback_tags) ==
    LET scene_analysis == DictGet(d, <<"scene_analysis">>, EmptyDict) IN
    IF Truthy(scene_analysis)
    THEN IF scene_analysis.t # "dict" THEN Raise("AttributeError")
         ELSE Return(DictSet(DictSet(DictSet(d,
                  <<"scene_tags">>, DictGet(scene_analysis, <<"scene_tags">>,
                                            PyOr(fallback_tags, EmptyList))),
                  <<"risk_context">>, DictGet(scene_analysis, <<"risk_context">>, EmptyStr)),
                  <<"confidence">>, DictGet(scene_analysis, <<"confidence">>, PyFloat(0))))
    ELSE Return(DictSet(DictSet(DictSet(d,
                  <<"scene_tags">>, PyOr(fallback_tags, EmptyList)),
                  <<"risk_context">>, EmptyStr),
                  <<"confidence">>, PyFloat(0)))

\* scene fields that never use the caller's fallback tags
WithSceneFieldsNoFallback(d, fallback_tags) ==
    LET scene_analysis == DictGet(d, <<"scene_analysis">>, EmptyDict) IN
    IF Truthy(scene_analysis)
    THEN IF scene_analysis.t # "dict" THEN Raise("AttributeError")
         ELSE Return(DictSet(DictSet(DictSet(d,
                  <<"scene_tags">>, DictGet(scene_analysis, <<"scene_tags">>, EmptyList)),
                  <<"risk_context">>, DictGet(scene_analysis, <<"risk_context">>, EmptyStr)),
                  <<"confidence">>, DictGet(scene_analysis, <<"confidence">>, PyFloat(0))))
    ELSE Return(DictSet(DictSet(DictSet(d,
                  <<"scene_tags">>, EmptyList),
                  <<"risk_context">>, EmptyStr),
                  <<"confidence">>, PyFloat(0)))

\* lines 74-83: the scene fields written onto data
WithSceneFields(d, fallback_tags) ==
    LET scene_analysis == DictGet(d, <<"scene_analysis">>, EmptyDict) IN
    IF Truthy(scene_analysis)
    THEN IF scene_analysis.t # "dict" THEN Raise("AttributeError")
         ELSE Return(DictSet(DictSet(DictSet(d,
                  <<"scene_tags">>, DictGet(scene_analysis, <<"scene_tags">>, EmptyList)),
                  <<"risk_context">>, DictGet(scene_analysis, <<"risk_context">>, EmptyStr)),
                  <<"confidence">>, DictGet(scene_analysis, <<"confidence">>, PyFloat(0))))
    ELSE Return(DictSet(DictSet(DictSet(d,
                  <<"scene_tags">>, PyOr(fallback_tags, EmptyList)),
                  <<"risk_context">>, EmptyStr),
                  <<"confidence">>, PyFloat(0)))

\* scene fields kept in one place for all calls: the step writes them onto
\* the data of every call that is under way
SceneAnalysisShared(c) ==
    /\ pc[c] = "scene"
    /\ Logged(c, <<"scene">>)
    /\ LET r == WithSceneFields(data[c], scene_tags[c]) IN
       IF r.kind = "raise"
       THEN /\ Finish(c, r)
            /\ UNCHANGED data
       ELSE /\ data' = [c2 \in Calls |->
                          IF c2 = c THEN r.value
                          ELSE IF data[c2].t = "dict" /\ pc[c2] # "done"
                               THEN DictSet(DictSet(DictSet(data[c2],
                                        <<"scene_tags">>, r.value.d[<<"scene_tags">>]),
                                        <<"risk_context">>, r.value.d[<<"risk_context">>]),
                                        <<"confidence">>, r.value.d[<<"confidence">>])
                               ELSE data[c2]]
            /\ pc' = [pc EXCEPT ![c] = "rules"]
            /\ UNCHANGED result
    /\ UNCHANGED <<rule_file, apiVars, response, json_string, scene_tags, selected_rule_packs,
                   all_rules, findings, idx>>

\* lines 74-83: scene_tags, risk_context and confidence are set on data
SceneAnalysis(c) ==
    /\ pc[c] = "scene"
    /\ Logged(c, <<"scene">>)
    /\ LET r == WithSceneFields(data[c], scene_tags[c]) IN
       IF r.kind = "raise"
       THEN /\ Finish(c, r)
            /\ UNCHANGED data
       ELSE /\ data' = [data EXCEPT ![c] = r.value]
            /\ pc' = [pc EXCEPT ![c] = "rules"]
            /\ UNCHANGED result
    /\ UNCHANGED <<rule_file, apiVars, response, json_string, scene_tags, selected_rule_packs,
                   all_rules, findings, idx>>

\* applied rules that are only looked up when rule packs were selected
AppliedRulesPacksOnly(rules, tags, packs) ==
    IF Truthy(packs)
    THEN LET filtered_rules == filter_rules_by_scene(rules, tags, PyOr(packs, EmptyList)) IN
         IF filtered_rules.kind = "raise" THEN filtered_rules
         ELSE LET ids == RuleIds(filtered_rules.value.l, 1) IN
              IF ids.kind = "raise" THEN ids ELSE Return(PyList(ids.value))
    ELSE Return(EmptyList)

\* lines 87-91: the value of data["applied_rules"]
AppliedRules(rules, tags, packs) ==
    IF Truthy(packs) \/ Truthy(tags)
    THEN LET filtered_rules == filter_rules_by_scene(rules, tags, PyOr(packs, EmptyList)) IN
         IF filtered_rules.kind = "raise" THEN filtered_rules
         ELSE LET ids == RuleIds(filtered_rules.value.l, 1) IN
              IF ids.kind = "raise" THEN ids ELSE Return(PyList(ids.value))
    ELSE Return(EmptyList)

\* applied rules kept in one place for all calls
LoadAndFilterRulesShared(c) ==
    /\ pc[c] = "rules"
    /\ LET loaded == load_rules_from_yaml(rule_file) IN
       IF loaded.kind = "raise"
       THEN /\ Finish(c, loaded)
            /\ Logged(c, <<"load_rules">>)
            /\ UNCHANGED <<data, all_rules>>
       ELSE LET tags == data[c].d[<<"scene_tags">>]
                r    == AppliedRules(loaded.value, tags, selected_rule_packs[c])
            IN
            /\ all_rules' = [all_rules EXCEPT ![c] = loaded.value]
            /\ Logged(c, IF Truthy(selected_rule_packs[c]) \/ Truthy(tags)
                         THEN <<"load_rules", "filter">> ELSE <<"load_rules">>)
            /\ IF r.kind = "raise"
               THEN /\ Finish(c, r)
                    /\ UNCHANGED data
               ELSE /\ data' = [c2 \in Calls |->
                                  IF c2 = c \/ (data[c2].t = "dict" /\ pc[c2] # "done")
                                  THEN DictSet(data[c2], <<"applied_rules">>, r.value)
                                  ELSE data[c2]]
                    /\ pc' = [pc EXCEPT ![c] = "findings"]
                    /\ UNCHANGED result
    /\ UNCHANGED <<rule_file, apiVars, response, json_string, scene_tags, selected_rule_packs, findings, idx>>

\* lines 86-91: the rule document is read, then filtered
LoadAndFilterRules(c) ==
    /\ pc[c] = "rules"
    /\ LET loaded == load_rules_from_yaml(rule_file) IN
       IF loaded.kind = "raise"
       THEN /\ Finish(c, loaded)
            /\ Logged(c, <<"load_rules">>)
            /\ UNCHANGED <<data, all_rules>>
       ELSE LET tags == data[c].d[<<"scene_tags">>]
                r    == AppliedRules(loaded.value, tags, selected_rule_packs[c])
            IN
            /\ all_rules' = [all_rules EXCEPT ![c] = loaded.value]
            /\ Logged(c, IF Truthy(selected_rule_packs[c]) \/ Truthy(tags)
                         THEN <<"load_rules", "filter">> ELSE <<"load_rules">>)
            /\ IF r.kind = "raise"
               THEN /\ Finish(c, r)
                    /\ UNCHANGED data
               ELSE /\ data' = [data EXCEPT ![c] = DictSet(data[c], <<"applied_rules">>, r.value)]
                    /\ pc' = [pc EXCEPT ![c] = "findings"]
                    /\ UNCHANGED result
    /\ UNCHANGED <<rule_file, apiVars, response, json_string, scene_tags, selected_rule_packs, findings, idx>>

\* lines 94-95: findings = data.get("findings", []) and the start of the loop
GetFindings(c) ==
    /\ pc[c] = "findings"
    /\ Logged(c, <<"findings">>)
    /\ LET f == DictGet(data[c], <<"findings">>, EmptyList) IN
       /\ findings' = [findings EXCEPT ![c] = f]
       /\ idx' = [idx EXCEPT ![c] = 1]
       /\ IF Iterate(f).kind = "raise"
          THEN Finish(c, Iterate(f))
          ELSE /\ pc' = [pc EXCEPT ![c] = "score"]
               /\ UNCHANGED result
    /\ UNCHANGED <<rule_file, apiVars, response, json_string, scene_tags, selected_rule_packs, data, all_rules>>

\* a score that adds the components instead of multiplying them
RiskScoreSum(severity, likelihood) ==
    LET s == PyIntOf(severity)
        l == PyIntOf(likelihood)
    IN IF s.kind = "raise" THEN s
       ELSE IF l.kind = "raise" THEN l
       ELSE Return((s.value + l.value) * 10)

\* line 101: int(severity) * int(likelihood) * 10; int(severity) is evaluated
\* first, so its exception wins
RiskScore(severity, likelihood) ==
    LET s == PyIntOf(severity)
        l == PyIntOf(likelihood)
    IN IF s.kind = "raise" THEN s
       ELSE IF l.kind = "raise" THEN l
       ELSE Return(s.value * l.value * 10)

\* a loop body that keeps a risk_score the item already has
ScoredKeepSupplied(item) ==
    IF item.t # "dict" THEN Raise("AttributeError")
    ELSE LET components == DictGet(item, <<"risk_score_components">>, EmptyDict) IN
         IF components.t # "dict" THEN Raise("AttributeError")
         ELSE LET risk_score == RiskScore(DictGet(components, <<"severity">>, PyInt(0)),
                                          DictGet(components, <<"likelihood">>, PyInt(0)))
              IN IF risk_score.kind = "raise" THEN risk_score
                 ELSE IF HasKey(item, <<"risk_score">>) THEN Return(item)
                 ELSE Return(DictSet(item, <<"risk_score">>, PyInt(risk_score.value)))

\* a loop body that also folds standard_reason into observation_reason
ScoredMergingReasons(item) ==
    IF item.t # "dict" THEN Raise("AttributeError")
    ELSE LET components == DictGet(item, <<"risk_score_components">>, EmptyDict) IN
         IF components.t # "dict" THEN Raise("AttributeError")
         ELSE LET risk_score == RiskScore(DictGet(components, <<"severity">>, PyInt(0)),
                                          DictGet(components, <<"likelihood">>, PyInt(0)))
                  merged     == PyStr(DictGet(item, <<"observation_reason">>, EmptyStr).s
                                      \o DictGet(item, <<"standard_reason">>, EmptyStr).s)
              IN IF risk_score.kind = "raise" THEN risk_score
                 ELSE Return(DictSet(DictSet(item, <<"observation_reason">>, merged),
                                     <<"risk_score">>, PyInt(risk_score.value)))

\* lines 96-102: the loop body, giving the item with its risk_score set
Scored(item) ==
    IF item.t # "dict" THEN Raise("AttributeError")
    ELSE LET components == DictGet(item, <<"risk_score_components">>, EmptyDict) IN
         IF components.t # "dict" THEN Raise("AttributeError")
         ELSE LET risk_score == RiskScore(DictGet(components, <<"severity">>, PyInt(0)),
                                          DictGet(components, <<"likelihood">>, PyInt(0)))
              IN IF risk_score.kind = "raise" THEN risk_score
                 ELSE Return(DictSet(item, <<"risk_score">>, PyInt(risk_score.value)))

\* lines 95-102, the whole loop from item n on: the items with their scores,
\* or the first exception
RECURSIVE ScoredFrom(_, _)
ScoredFrom(items, n) ==
    IF n > Len(items) THEN Return(<<>>)
    ELSE LET r == Scored(items[n]) IN
         IF r.kind = "raise" THEN r
         ELSE LET rest == ScoredFrom(items, n + 1) IN
              IF rest.kind = "raise" THEN rest
              ELSE Return(<<r.value>> \o rest.value)

\* one iteration of the loop of lines 95-102; the item is changed in place
ScoreFinding(c) ==
    /\ pc[c] = "score"
    /\ Logged(c, <<"score">>)
    /\ idx[c] <= Len(Iterate(findings[c]).value)
    /\ LET r == Scored(Iterate(findings[c]).value[idx[c]]) IN
       IF r.kind = "raise"
       THEN /\ Finish(c, r)
            /\ UNCHANGED <<findings, idx>>
       ELSE /\ findings' = [findings EXCEPT ![c] =
                               PyList([Iterate(findings[c]).value EXCEPT ![idx[c]] = r.value])]
            /\ idx' = [idx EXCEPT ![c] = idx[c] + 1]
            /\ UNCHANGED <<pc, result>>
    /\ UNCHANGED <<rule_file, apiVars, response, json_string, scene_tags, selected_rule_packs, data, all_rules>>

\* a last step that writes the findings back only when there are some
SortFindingsIfAny(c) ==
    /\ pc[c] = "score"
    /\ Logged(c, <<"sort">>)
    /\ idx[c] > Len(Iterate(findings[c]).value)
    /\ LET items           == Iterate(findings[c]).value
           sorted_findings == SortedDescending(items, Len(items))
           returned        == IF items = <<>> THEN data[c]
                              ELSE DictSet(data[c], <<"findings">>, PyList(sorted_findings))
       IN /\ data' = [data EXCEPT ![c] = returned]
          /\ Finish(c, Return(returned))
    /\ UNCHANGED <<rule_file, apiVars, response, json_string, scene_tags, selected_rule_packs,
                   all_rules, findings, idx>>

\* lines 105-108: data["findings"] = sorted(...); return data
SortFindings(c) ==
    /\ pc[c] = "score"
    /\ Logged(c, <<"sort">>)
    /\ idx[c] > Len(Iterate(findings[c]).value)
    /\ LET items           == Iterate(findings[c]).value
           sorted_findings == SortedDescending(items, Len(items))
           returned        == DictSet(data[c], <<"findings">>, PyList(sorted_findings))
       IN /\ data' = [data EXCEPT ![c] = returned]
          /\ Finish(c, Return(returned))
    /\ UNCHANGED <<rule_file, apiVars, response, json_string, scene_tags, selected_rule_packs,
                   all_rules, findings, idx>>

\* lines 63-108 run from the first to the last with nothing in between: what
\* one call on its own returns or raises
process_ai_response(text, fallback_tags, packs, file) ==
    LET parsed == json_loads(text) IN
    IF parsed.kind = "raise" THEN Return(ParseErrorObject(text))
    ELSE IF parsed.value.t # "dict" THEN Raise("AttributeError")
    ELSE IF Truthy(DictGet(parsed.value, <<"error">>, PyNone)) THEN parsed
    ELSE LET scene == WithSceneFields(parsed.value, fallback_tags) IN
    IF scene.kind = "raise" THEN scene
    ELSE LET loaded == load_rules_from_yaml(file) IN
    IF loaded.kind = "raise" THEN loaded
    ELSE LET applied == AppliedRules(loaded.value, scene.value.d[<<"scene_tags">>], packs) IN
    IF applied.kind = "raise" THEN applied
    ELSE LET with_rules == DictSet(scene.value, <<"applied_rules">>, applied.value)
             items      == Iterate(DictGet(with_rules, <<"findings">>, EmptyList))
         IN
    IF items.kind = "raise" THEN items
    ELSE LET scored == ScoredFrom(items.value, 1) IN
    IF scored.kind = "raise" THEN scored
    ELSE Return(DictSet(with_rules, <<"findings">>,
                        PyList(SortedDescending(scored.value, Len(scored.value)))))

-----------------------------------------------------------------------------
(* Inputs: rule documents, arguments and JSON texts *)

MaxFindings == 3

Word(w) == PyStr(<<w>>)

Rule(id, domain, cues) ==
    PyDict((<<"rule_id">> :> Word(id)) @@ (<<"domain">> :> PyStr(domain))
           @@ (<<"detection_cues">> :> PyList(cues)))

\* a rule document of the shape app/rules.yml has
RuleDocument ==
    PyDict(<<"rules">> :> PyList(<<
        Rule("LS-FALL-001", <<"Labor", " ", "Safety">>, <<Word("high-altitude-work")>>),
        Rule("IS-DESK-001", <<"Information", " ", "Security">>, <<Word("office")>>),
        Rule("FH-COOK-001", <<"Food", " ", "Hygiene">>, <<Word("kitchen")>>) >>))

RuleFiles ==
    { [exists |-> FALSE, readable |-> FALSE, wellformed |-> FALSE, doc |-> PyNone],
      [exists |-> TRUE, readable |-> TRUE, wellformed |-> TRUE, doc |-> RuleDocument] }

SceneTagArgs == { PyNone, PyList(<<Word("office")>>) }

RulePackArgs == { PyNone, PyList(<<Word("Labor")>>) }

Components(severity, likelihood) ==
    PyDict((<<"severity">> :> severity) @@ (<<"likelihood">> :> likelihood))

\* a finding with every required field of the tool schema, and with the
\* optional additional_question when its judgment is "unknown"
Finding(id, judgment, components) ==
    PyDict((<<"rule_id">> :> Word(id)) @@ (<<"domain">> :> Word("domain-" \o id))
           @@ (<<"judgment">> :> Word(judgment))
           @@ (<<"observation_reason">> :> Word("seen-" \o id))
           @@ (<<"standard_reason">> :> Word("law-" \o id))
           @@ (<<"risk_score_components">> :> components)
           @@ (IF judgment = "unknown"
               THEN <<"additional_question">> :> Word("ask-" \o id)
               ELSE <<>>))

\* findings as the model may produce them: scores 90, 60, 60 and 0, a numeral
\* given as a string, a supplied risk_score, a missing component, missing
\* components, and a severity that is no numeral
FindingSet ==
    { Finding("R1", "noncompliant", Components(PyInt(3), PyInt(3))),
      Finding("R2", "unknown", Components(PyInt(3), PyInt(2))),
      DictSet(Finding("R3", "noncompliant", Components(Word("2"), PyInt(3))),
              <<"risk_score">>, PyInt(100)),
      Finding("R4", "compliant", PyDict(<<"severity">> :> PyInt(3))),
      PyDict((<<"rule_id">> :> Word("R5")) @@ (<<"judgment">> :> Word("other"))
             @@ (<<"risk_score">> :> PyInt(70))),
      Finding("R6", "unknown", Components(Word("high"), PyInt(2))) }

\* the lists of at most n different members of S
BoundedSeq(S, n) ==
    UNION { { l \in [1..m -> S] : \A a, b \in 1..m : a # b => l[a] # l[b] } : m \in 0..n }

Absent == [present |-> FALSE, v |-> PyNone]

Present(v) == [present |-> TRUE, v |-> v]

WithOptional(d, key, choice) == IF choice.present THEN DictSet(d, key, choice.v) ELSE d

ErrorChoices == { Absent, Present(Word("invalid API key")), Present(EmptyStr) }

FullScene ==
    PyDict((<<"scene_tags">> :> PyList(<<Word("high-altitude-work")>>))
           @@ (<<"risk_context">> :> Word("scaffold"))
           @@ (<<"confidence">> :> PyFloat(9)))

SceneChoices ==
    { Absent, Present(EmptyDict), Present(FullScene),
      Present(PyDict(<<"risk_context">> :> Word("scaffold"))) }

FindingsChoices == {Absent} \cup { Present(PyList(l)) : l \in BoundedSeq(FindingSet, MaxFindings) }

\* a list of two findings that the sort must swap (scores 60, 90)
TwoFindings ==
    PyList(<< Finding("R2", "unknown", Components(PyInt(3), PyInt(2))),
              Finding("R1", "noncompliant", Components(PyInt(3), PyInt(3))) >>)

FewFindingsChoices == { Absent, Present(EmptyList), Present(TwoFindings) }

Suggestions ==
    PyList(<< PyDict(<<"suggestion">> :> Word("s1")),
              PyDict(<<"suggestion">> :> Word("s2")) >>)

SuggestionsChoices == { Absent, Present(Suggestions) }

Payload(e, s, f, g) ==
    WithOptional(WithOptional(WithOptional(WithOptional(EmptyDict,
        <<"error">>, e), <<"scene_analysis">>, s), <<"findings">>, f), <<"suggestions">>, g)

\* the objects the model-call layer may encode: every combination of present
\* and absent keys around a short list of findings, and every list of
\* findings inside a payload with and without scene_analysis
Payloads ==
    { Payload(e, s, f, g) : e \in ErrorChoices, s \in SceneChoices,
                            f \in FewFindingsChoices, g \in SuggestionsChoices }
    \cup { Payload(Absent, s, f, Present(Suggestions)) :
           s \in {Absent, Present(FullScene)}, f \in FindingsChoices }

\* well-formed JSON whose top-level value is no object
NonObjectValues == { EmptyList, Word("text"), PyInt(3), PyNone, PyBool(TRUE) }

\* texts that are no JSON: every proper prefix of two encoded payloads, an
\* encoded payload followed by more text, and '{"key": "value' of the
\* module's self-test (line 167), whose string never ends
TruncatedSources ==
    { PyDict(<<"error">> :> Word("invalid API key")),
      PyDict(<<"findings">> :> PyList(<<Finding("R1", "noncompliant",
                                                Components(PyInt(3), PyInt(3)))>>)) }

MalformedTexts ==
    UNION { { SubSeq(json_dumps(p), 1, n) : n \in 0..(Len(json_dumps(p)) - 1) } :
            p \in TruncatedSources }
    \cup { json_dumps(p) \o <<Punct("}")>> : p \in TruncatedSources }
    \cup { << Punct("{"), Lit(Word("key")), Punct(":"),
              [k |-> "unterminated", v |-> Word("value")] >> }

\* an object whose scene_analysis is a string, not an object
IllTypedPayloads == { PyDict(<<"scene_analysis">> :> Word("text")) }

JsonTexts ==
    { json_dumps(p) : p \in Payloads \cup NonObjectValues \cup IllTypedPayloads }
    \cup MalformedTexts

-----------------------------------------------------------------------------
(* The specification: one call of process_ai_response on any input *)

Unset == [t |-> "unset"]

\* calls `ids` about to start, with a rule document and arguments of the
\* given sets
\* models.py:18-32
DefaultModelConfigs ==
    (<<"gpt-4.1", "-mini-2025-04-14">> :>
        PyDict((<<"temperature">> :> PyFloat(0)) @@ (<<"max_tokens">> :> PyInt(4000))))
    @@ (<<"gpt-4.1">> :>
        PyDict((<<"temperature">> :> PyFloat(7)) @@ (<<"max_tokens">> :> PyInt(4000))))
    @@ (<<"gpt-5", "-mini">> :>
        PyDict((<<"reasoning_effort">> :> Word("medium")) @@ (<<"verbosity">> :> Word("medium"))
               @@ (<<"max_tokens">> :> PyInt(4000))))

\* calls `ids` that involve no model call and no dashboard
NoModelCall(ids) ==
    /\ MODEL_CONFIGS = DefaultModelConfigs
    /\ model = [c \in ids |-> Unset]
    /\ custom_params = [c \in ids |-> Unset]
    /\ api_params = [c \in ids |-> Unset]
    /\ rule_pack_selection = Unset
    /\ stage1_scene = [c \in ids |-> Unset]

InitWith(ids, files, texts, tags, packs) ==
    /\ rule_file \in files
    /\ json_string \in [ids -> texts]
    /\ scene_tags \in [ids -> tags]
    /\ selected_rule_packs \in [ids -> packs]
    /\ pc = [c \in ids |-> "parse"]
    /\ data = [c \in ids |-> Unset]
    /\ all_rules = [c \in ids |-> Unset]
    /\ findings = [c \in ids |-> Unset]
    /\ idx = [c \in ids |-> 0]
    /\ result = [c \in ids |-> Unset]
    /\ response = [c \in ids |-> Unset]
    /\ log = [c \in ids |-> <<>>]
    /\ NoModelCall(ids)

InitCalls(ids) == InitWith(ids, RuleFiles, JsonTexts, SceneTagArgs, RulePackArgs)

Init == InitCalls({1})

Next ==
    \/ \E c \in Calls : ParseJson(c)
    \/ \E c \in Calls : CheckError(c)
    \/ \E c \in Calls : SceneAnalysis(c)
    \/ \E c \in Calls : LoadAndFilterRules(c)
    \/ \E c \in Calls : GetFindings(c)
    \/ \E c \in Calls : ScoreFinding(c)
    \/ \E c \in Calls : SortFindings(c)

Spec == Init /\ [][Next]_vars

-----------------------------------------------------------------------------
(* What a finished call shows *)

Done(c) == pc[c] = "done"

Returned(c) == Done(c) /\ result[c].kind = "return"

Raised(c) == Done(c) /\ result[c].kind = "raise"

\* the payload: what the text parses to, when it parses
Parses(c) == json_loads(json_string[c]).kind = "return"

PayloadOf(c) == json_loads(json_string[c]).value

ObjectPayload(c) == Parses(c) /\ PayloadOf(c).t = "dict"

\* a successful result: a returned object without the key `error`
Succeeded(c) == Returned(c) /\ ~HasKey(result[c].value, <<"error">>)

PayloadFindings(c) == DictGet(PayloadOf(c), <<"findings">>, EmptyList).l

ResultFindings(c) == result[c].value.d[<<"findings">>].l

ScoreOf(f) == f.d[<<"risk_score">>].i

\* a finding without its risk_score
Unscored(f) == [k \in DOMAIN f.d \ {<<"risk_score">>} |-> f.d[k]]

Orderings(n) == { p \in [1..n -> 1..n] : \A a, b \in 1..n : a # b => p[a] # p[b] }

RuleIdsOf(l) == [n \in 1..Len(l) |-> l[n].d[<<"rule_id">>].s[1]]

-----------------------------------------------------------------------------
(* Claims *)

\* C1: the findings of a successful result are the payload's findings in a
\* new order: by risk_score descending, and findings of equal risk_score in
\* the order the payload gave them.
C1_SortedStablePermutation ==
    \A c \in Calls :
        Succeeded(c) =>
            LET in  == PayloadFindings(c)
                out == ResultFindings(c)
            IN /\ Len(out) = Len(in)
               /\ \E p \in Orderings(Len(in)) :
                    /\ \A n \in 1..Len(out) : Unscored(out[n]) = Unscored(in[p[n]])
                    /\ \A a, b \in 1..Len(out) :
                         a < b => \/ ScoreOf(out[a]) > ScoreOf(out[b])
                                  \/ ScoreOf(out[a]) = ScoreOf(out[b]) /\ p[a] < p[b]

\* C1 witness: scores [60, 90, 60] came out as [90, first 60, second 60]
C1_Witness ==
    \E c \in Calls :
        /\ Succeeded(c)
        /\ RuleIdsOf(PayloadFindings(c)) = <<"R2", "R1", "R3">>
        /\ RuleIdsOf(ResultFindings(c)) = <<"R1", "R2", "R3">>
        /\ [n \in 1..3 |-> ScoreOf(ResultFindings(c)[n])] = <<90, 60, 60>>

\* the score the payload's components call for: a missing component, or a
\* missing risk_score_components object, counts as 0
ComponentOf(f, name) ==
    IF HasKey(f, <<"risk_score_components">>)
       /\ HasKey(f.d[<<"risk_score_components">>], name)
    THEN PyIntOf(f.d[<<"risk_score_components">>].d[name]).value
    ELSE 0

ExpectedScore(f) == ComponentOf(f, <<"severity">>) * ComponentOf(f, <<"likelihood">>) * 10

C3_MalformedJson ==
    \A c \in Calls :
        (Done(c) /\ (json_string[c] \in MalformedTexts \/ ~Parses(c))) =>
            /\ Returned(c)
            /\ result[c].value.t = "dict"
            /\ DOMAIN result[c].value.d = {<<"error">>, <<"raw_response">>}
            /\ result[c].value.d[<<"raw_response">>] = PyStr(json_string[c])
            /\ result[c].value.d[<<"error">>].t = "str"

\* C3 witness: the truncated text '{"key": "value' was answered with an error
C3_Witness ==
    \E c \in Calls :
        /\ Returned(c)
        /\ Len(json_string[c]) = 4
        /\ json_string[c][4].k = "unterminated"
        /\ HasKey(result[c].value, <<"error">>)

\* the keys process_ai_response adds to a payload it normalizes
NormalizationKeys ==
    { <<"scene_tags">>, <<"risk_context">>, <<"confidence">>, <<"applied_rules">> }

\* C4: a payload that parses to an object with the key `error`, whatever the
\* key's value, is returned as parsed: no key added, no finding scored or
\* moved.
C4_ErrorKeyPassthrough ==
    \A c \in Calls :
        (Done(c) /\ ObjectPayload(c) /\ HasKey(PayloadOf(c), <<"error">>)) =>
            /\ Returned(c)
            /\ result[c].value = PayloadOf(c)

\* the shape of a successful result: the normalization keys and scored findings
SuccessShape(r) ==
    /\ r.t = "dict"
    /\ NormalizationKeys \cup {<<"findings">>} \subseteq DOMAIN r.d
    /\ \A n \in 1..Len(r.d[<<"findings">>].l) :
           HasKey(r.d[<<"findings">>].l[n], <<"risk_score">>)

\* C5: a returned value with the key `error` carries nothing normalization
\* produces, and a returned value without it is a successful result.
C5_ErrorXorSuccess ==
    \A c \in Calls :
        Returned(c) =>
            IF HasKey(result[c].value, <<"error">>)
            THEN /\ DOMAIN result[c].value.d \cap NormalizationKeys = {}
                 /\ Parses(c) => result[c].value = PayloadOf(c)
            ELSE SuccessShape(result[c].value)

\* a value int() converts: a number, a boolean or a string of digits
IntegerLike(v) ==
    \/ v.t \in {"int", "bool", "float"}
    \/ v.t = "str" /\ v.s # <<>>
       /\ \A n \in 1..Len(v.s) : v.s[n] \in {"0", "1", "2", "3", "4", "5", "6", "7", "8", "9"}

\* both components of the finding are integer-coercible (or missing)
Coercible(f) ==
    /\ f.t = "dict"
    /\ DictGet(f, <<"risk_score_components">>, EmptyDict).t = "dict"
    /\ \A name \in { <<"severity">>, <<"likelihood">> } :
           IntegerLike(DictGet(DictGet(f, <<"risk_score_components">>, EmptyDict),
                               name, PyInt(0)))

\* every finding the text carries has integer-coercible components
AllCoercible(c) ==
    (ObjectPayload(c) /\ DictGet(PayloadOf(c), <<"findings">>, EmptyList).t = "list") =>
        \A n \in 1..Len(PayloadFindings(c)) : Coercible(PayloadFindings(c)[n])

\* C6: on every text whose findings have integer-coercible components, also
\* well-formed JSON that is no object, the call returns a value and raises
\* nothing.
C6_NoExceptionEscapes ==
    \A c \in Calls : (Done(c) /\ AllCoercible(c)) => Returned(c)

\* C7: a payload without `error` key one of whose findings has a component
\* int() rejects makes the call raise: nothing is returned, neither a result
\* nor an error object nor the findings scored so far.
C7_NonCoercibleRaises ==
    \A c \in Calls :
        ( /\ Done(c)
          /\ ObjectPayload(c)
          /\ ~HasKey(PayloadOf(c), <<"error">>)
          /\ \E n \in 1..Len(PayloadFindings(c)) : ~Coercible(PayloadFindings(c)[n]) ) =>
            /\ Raised(c)
            /\ result[c].exc \in {"ValueError", "TypeError"}

\* C7 witness: the third finding made the call raise after two had been scored
C7_Witness ==
    \E c \in Calls :
        /\ Raised(c)
        /\ result[c].exc = "ValueError"
        /\ idx[c] = 3
        /\ HasKey(findings[c].l[1], <<"risk_score">>)
        /\ HasKey(findings[c].l[2], <<"risk_score">>)
        /\ ~Coercible(findings[c].l[3])

\* the finding of the payload's list `in` that the result's finding f came from
SourceOf(in, f) == CHOOSE g \in { in[n] : n \in 1..Len(in) } : Unscored(g) = Unscored(f)

\* C8: a risk_score the payload supplies is overwritten: the score in the
\* result and the order of the findings follow the components alone.
C8_SuppliedScoreOverwritten ==
    \A c \in Calls :
        Succeeded(c) =>
            LET in     == PayloadFindings(c)
                out    == ResultFindings(c)
                source == [n \in 1..Len(out) |-> SourceOf(in, out[n])]
            IN /\ \A n \in 1..Len(out) :
                    HasKey(source[n], <<"risk_score">>) =>
                        ScoreOf(out[n]) = ExpectedScore(source[n])
               /\ \A n \in 1..(Len(out) - 1) :
                    ExpectedScore(source[n]) >= ExpectedScore(source[n + 1])

\* C8 witness: the finding supplied with risk_score 100 came out scored 60,
\* behind the finding scored 90 that followed it in the payload
C8_Witness ==
    \E c \in Calls :
        /\ Succeeded(c)
        /\ RuleIdsOf(PayloadFindings(c)) = <<"R3", "R1">>
        /\ PayloadFindings(c)[1].d[<<"risk_score">>] = PyInt(100)
        /\ RuleIdsOf(ResultFindings(c)) = <<"R1", "R3">>
        /\ ScoreOf(ResultFindings(c)[2]) = 60

SceneOf(c) == PayloadOf(c).d[<<"scene_analysis">>]

NonEmptyScene(c) ==
    /\ HasKey(PayloadOf(c), <<"scene_analysis">>)
    /\ SceneOf(c).t = "dict"
    /\ DOMAIN SceneOf(c).d # {}

\* C9: with a non-empty scene_analysis object the result's scene_tags,
\* risk_context and confidence are its fields, [] / "" / 0.0 standing in for a
\* field it lacks; the caller's fallback tags play no part.
C9_SceneFieldsCopied ==
    \A c \in Calls :
        (Succeeded(c) /\ NonEmptyScene(c)) =>
            LET r == result[c].value.d
                field(name, default) == IF HasKey(SceneOf(c), name) THEN SceneOf(c).d[name]
                                        ELSE default
            IN /\ r[<<"scene_tags">>] = field(<<"scene_tags">>, PyList(<<>>))
               /\ r[<<"risk_context">>] = field(<<"risk_context">>, PyStr(<<>>))
               /\ r[<<"confidence">>] = field(<<"confidence">>, PyFloat(0))

\* C9 witness: a scene_analysis without scene_tags, a caller who passed
\* fallback tags, and a result whose scene_tags is [] all the same
C9_Witness ==
    \E c \in Calls :
        /\ Succeeded(c)
        /\ NonEmptyScene(c)
        /\ ~HasKey(SceneOf(c), <<"scene_tags">>)
        /\ Truthy(scene_tags[c])
        /\ result[c].value.d[<<"scene_tags">>] = PyList(<<>>)
        /\ result[c].value.d[<<"risk_context">>] = SceneOf(c).d[<<"risk_context">>]

\* C10: without scene_analysis, or with an empty one, the result's
\* scene_tags is the caller's fallback tags ([] when none were passed),
\* risk_context is "" and confidence 0.0, and the findings are scored and sorted.
C10_LegacyPayload ==
    \A c \in Calls :
        ( /\ Succeeded(c)
          /\ \/ ~HasKey(PayloadOf(c), <<"scene_analysis">>)
             \/ SceneOf(c) = PyDict(<<>>) ) =>
            LET r   == result[c].value.d
                out == ResultFindings(c)
            IN /\ r[<<"scene_tags">>] = IF scene_tags[c] = PyNone THEN PyList(<<>>)
                                        ELSE scene_tags[c]
               /\ r[<<"risk_context">>] = PyStr(<<>>)
               /\ r[<<"confidence">>] = PyFloat(0)
               /\ Len(out) = Len(PayloadFindings(c))
               /\ \A n \in 1..Len(out) : HasKey(out[n], <<"risk_score">>)
               /\ \A n \in 1..(Len(out) - 1) : ScoreOf(out[n]) >= ScoreOf(out[n + 1])

\* C10 witness: a payload without scene_analysis, fallback tags passed and
\* found in the result, and two findings scored and swapped by the sort
C10_Witness ==
    \E c \in Calls :
        /\ Succeeded(c)
        /\ ~HasKey(PayloadOf(c), <<"scene_analysis">>)
        /\ Truthy(scene_tags[c])
        /\ result[c].value.d[<<"scene_tags">>] = scene_tags[c]
        /\ RuleIdsOf(PayloadFindings(c)) = <<"R2", "R1">>
        /\ RuleIdsOf(ResultFindings(c)) = <<"R1", "R2">>

-----------------------------------------------------------------------------
(* filter_rules_by_scene on its own: one call on any list of rules *)

MaxRules == 2

\* rules as a rule document may hold them: one per domain, one whose only cue
\* has a shorter tag inside it, and one with neither domain nor cues
FilterRuleSet ==
    { Rule("LS-FALL-001", <<"Labor", " ", "Safety">>, <<Word("high-altitude-work")>>),
      Rule("IS-DESK-001", <<"Information", " ", "Security">>,
           <<Word("screen"), Word("office")>>),
      Rule("LS-DESK-002", <<"Labor", " ", "Safety">>, <<PyStr(<<"office", "-", "desk">>)>>),
      Rule("FH-COOK-001", <<"Food", " ", "Hygiene">>, <<Word("kitchen")>>),
      PyDict(<<"rule_id">> :> Word("XX-BARE-001")) }

\* lists of at most n members of S, repeats allowed
SeqsUpTo(S, n) == UNION { [1..m -> S] : m \in 0..n }

FilterRuleLists == { PyList(l) : l \in SeqsUpTo(FilterRuleSet, MaxRules) }

FilterTagArgs ==
    { EmptyList, PyList(<<Word("office")>>), PyList(<<Word("high-altitude-work")>>),
      PyList(<<Word("forklift"), Word("kitchen")>>) }

FilterPackArgs ==
    { EmptyList, PyList(<<Word("Labor")>>), PyList(<<PyStr(<<"Food", " ", "Hygiene">>)>>),
      PyList(<<Word("Traffic"), Word("Security")>>) }

\* lines 35-47: the whole call
FilterRulesByScene(c) ==
    /\ pc[c] = "filter"
    /\ Logged(c, <<"filter">>)
    /\ Finish(c, filter_rules_by_scene(all_rules[c], scene_tags[c], selected_rule_packs[c]))
    /\ UNCHANGED <<rule_file, apiVars, response, json_string, scene_tags, selected_rule_packs,
                   data, all_rules, findings, idx>>

InitFilter ==
    /\ rule_file \in { f \in RuleFiles : f.exists }
    /\ json_string = [c \in {1} |-> <<>>]
    /\ all_rules \in [{1} -> FilterRuleLists]
    /\ scene_tags \in [{1} -> FilterTagArgs]
    /\ selected_rule_packs \in [{1} -> FilterPackArgs]
    /\ pc = [c \in {1} |-> "filter"]
    /\ data = [c \in {1} |-> Unset]
    /\ findings = [c \in {1} |-> Unset]
    /\ idx = [c \in {1} |-> 0]
    /\ result = [c \in {1} |-> Unset]
    /\ response = [c \in {1} |-> Unset]
    /\ log = [c \in {1} |-> <<>>]
    /\ NoModelCall({1})

NextFilter == \E c \in Calls : FilterRulesByScene(c)

SpecFilter == InitFilter /\ [][NextFilter]_vars

\* (a): some selected pack is a substring of the rule's domain
PackMatches(rule, packs) ==
    \E n \in 1..Len(packs.l) :
        IsSubstring(packs.l[n].s, DictGet(rule, <<"domain">>, EmptyStr).s)

\* (b): there are scene tags and one of them is one of the rule's cues
CueMatches(rule, tags) ==
    /\ Len(tags.l) > 0
    /\ \E n \in 1..Len(tags.l) :
           \E m \in 1..Len(DictGet(rule, <<"detection_cues">>, EmptyList).l) :
               DictGet(rule, <<"detection_cues">>, EmptyList).l[m] = tags.l[n]

Selected(rules, tags, packs) ==
    SelectSeq(rules, LAMBDA rule : PackMatches(rule, packs) \/ CueMatches(rule, tags))

FilterDone(c) == Done(c) /\ log[c] = <<"filter">>

\* C11: filter_rules_by_scene returns the subsequence of rules, in input
\* order and each entry once, of the rules of which some selected pack is a
\* substring of the domain or, when there are scene tags, some tag is a
\* member of detection_cues; with no tags and no packs the result is empty.
C11_FilterSubsequence ==
    \A c \in Calls :
        FilterDone(c) =>
            /\ result[c] = Return(PyList(Selected(all_rules[c].l, scene_tags[c],
                                                  selected_rule_packs[c])))
            /\ (scene_tags[c] = EmptyList /\ selected_rule_packs[c] = EmptyList)
                   => result[c] = Return(EmptyList)

\* a rule passing both tests is in the result once, and a rule whose cue only
\* contains the tag is left out
C11_Witness ==
    \E c \in Calls :
        /\ FilterDone(c)
        /\ Len(all_rules[c].l) = 2
        /\ PackMatches(all_rules[c].l[1], selected_rule_packs[c])
        /\ CueMatches(all_rules[c].l[1], scene_tags[c])
        /\ all_rules[c].l[2].d[<<"rule_id">>] = Word("LS-DESK-002")
        /\ scene_tags[c] = PyList(<<Word("office")>>)
        /\ result[c] = Return(PyList(<<all_rules[c].l[1]>>))

-----------------------------------------------------------------------------
(* The rules applied by process_ai_response *)

\* the rule_id of each rule of a list, in order
IdsOf(rules) == [n \in 1..Len(rules) |-> rules[n].d[<<"rule_id">>]]

FilterCalled(c) == \E n \in 1..Len(log[c]) : log[c][n] = "filter"

\* C12: in every successful result applied_rules is the rule_ids of the rules
\* the filter passes for the result's scene_tags and the supplied rule packs
\* (or none), in filter order, whenever packs or scene_tags are non-empty;
\* when both are empty applied_rules is [] and the filter is not called.
C12_AppliedRules ==
    \A c \in Calls :
        Succeeded(c) =>
            LET out   == result[c].value.d
                tags  == out[<<"scene_tags">>]
                packs == PyOr(selected_rule_packs[c], EmptyList)
            IN IF Len(packs.l) > 0 \/ Len(tags.l) > 0
               THEN /\ out[<<"applied_rules">>] =
                           PyList(IdsOf(Selected(all_rules[c].l, tags, packs)))
                    /\ FilterCalled(c)
               ELSE /\ out[<<"applied_rules">>] = EmptyList
                    /\ ~FilterCalled(c)

\* no scene_analysis, the caller's tag and pack: one rule passes by its domain
\* and one by its cue
C12_Witness ==
    \E c \in Calls :
        /\ Succeeded(c)
        /\ selected_rule_packs[c] = PyList(<<Word("Labor")>>)
        /\ result[c].value.d[<<"scene_tags">>] = PyList(<<Word("office")>>)
        /\ result[c].value.d[<<"applied_rules">>] =
               PyList(<<Word("LS-FALL-001"), Word("IS-DESK-001")>>)

-----------------------------------------------------------------------------
(* process_ai_response over rule documents that fail to load *)

\* a file that is missing, one that may not be read, one that is no YAML, an
\* empty one (None), one whose document is a list, one whose mapping has no
\* key `rules`, and one whose key `rules` has no value (None)
RuleFaults ==
    { [exists |-> FALSE, readable |-> FALSE, wellformed |-> FALSE, doc |-> PyNone],
      [exists |-> TRUE, readable |-> FALSE, wellformed |-> FALSE, doc |-> PyNone],
      [exists |-> TRUE, readable |-> TRUE, wellformed |-> FALSE, doc |-> PyNone],
      [exists |-> TRUE, readable |-> TRUE, wellformed |-> TRUE, doc |-> PyNone],
      [exists |-> TRUE, readable |-> TRUE, wellformed |-> TRUE,
       doc |-> RuleDocument.d[<<"rules">>]],
      [exists |-> TRUE, readable |-> TRUE, wellformed |-> TRUE,
       doc |-> PyDict(<<"version">> :> PyInt(1))],
      [exists |-> TRUE, readable |-> TRUE, wellformed |-> TRUE,
       doc |-> PyDict(<<"rules">> :> PyNone)] }

\* three findings the sort must reorder, keeping the two of score 60 in order
ThreeFindings ==
    PyList(<< Finding("R2", "unknown", Components(PyInt(3), PyInt(2))),
              Finding("R1", "noncompliant", Components(PyInt(3), PyInt(3))),
              DictSet(Finding("R3", "noncompliant", Components(Word("2"), PyInt(3))),
                      <<"risk_score">>, PyInt(100)) >>)

RulesPayloads ==
    { Payload(Absent, s, f, Present(Suggestions)) :
        s \in {Absent, Present(FullScene)},
        f \in FewFindingsChoices \cup {Present(ThreeFindings)} }

InitRules ==
    InitWith({1}, RuleFiles \cup RuleFaults, { json_dumps(p) : p \in RulesPayloads },
             SceneTagArgs, RulePackArgs)

SpecRules == InitRules /\ [][Next]_vars

RulesLoaded(c) == \E n \in 1..Len(log[c]) : log[c][n] = "load_rules"

\* the file is missing, unreadable or no YAML
Unavailable(file) == ~file.exists \/ ~file.readable \/ ~file.wellformed

\* C13: load_rules_from_yaml lets no exception escape; on a rule source that
\* is missing, unreadable or malformed it returns an empty sequence.
C13_LoadNeverRaises ==
    \A c \in Calls :
        RulesLoaded(c) =>
            /\ all_rules[c] # Unset
            /\ Unavailable(rule_file) => all_rules[c] = EmptyList

\* a call read a file it may not read and got []
C13_Witness ==
    \E c \in Calls :
        /\ RulesLoaded(c)
        /\ rule_file.exists /\ ~rule_file.readable
        /\ all_rules[c] = EmptyList

\* an object without the key `error` whose scene_analysis, when there, is an
\* object and whose findings have integer-coercible components
ValidPayload(c) ==
    /\ ObjectPayload(c)
    /\ ~HasKey(PayloadOf(c), <<"error">>)
    /\ DictGet(PayloadOf(c), <<"scene_analysis">>, EmptyDict).t = "dict"
    /\ DictGet(PayloadOf(c), <<"findings">>, EmptyList).t = "list"
    /\ AllCoercible(c)

\* out is in scored and sorted: each finding of in with the score its
\* components call for, by descending score, equal scores in the order of in
ScoredAndSorted(in, out) ==
    /\ Len(out) = Len(in)
    /\ \A n \in 1..Len(out) : out[n].d[<<"risk_score">>] = PyInt(ExpectedScore(out[n]))
    /\ \E p \in Orderings(Len(in)) :
         /\ \A n \in 1..Len(out) : Unscored(out[n]) = Unscored(in[p[n]])
         /\ \A a, b \in 1..Len(out) :
              a < b => \/ ScoreOf(out[a]) > ScoreOf(out[b])
                       \/ ScoreOf(out[a]) = ScoreOf(out[b]) /\ p[a] < p[b]

\* C14: with a rule document that is missing or unparseable, a valid payload
\* without error still gives a successful result; its applied_rules is [] and
\* its findings are scored and sorted as with a working rule source.
C14_DegradesToNoRules ==
    \A c \in Calls :
        (Done(c) /\ Unavailable(rule_file) /\ ValidPayload(c)) =>
            /\ Succeeded(c)
            /\ result[c].value.d[<<"applied_rules">>] = EmptyList
            /\ ScoredAndSorted(PayloadFindings(c), ResultFindings(c))

\* no YAML in the file, rule packs selected and scene tags found: the three
\* findings came out scored 90, 60, 60 with no rule applied
C14_Witness ==
    \E c \in Calls :
        /\ Succeeded(c)
        /\ rule_file.readable /\ ~rule_file.wellformed
        /\ selected_rule_packs[c] # PyNone
        /\ result[c].value.d[<<"scene_tags">>] # EmptyList
        /\ result[c].value.d[<<"applied_rules">>] = EmptyList
        /\ RuleIdsOf(ResultFindings(c)) = <<"R1", "R2", "R3">>

-----------------------------------------------------------------------------
(* The keys findings and suggestions of a successful result *)

\* C15 as stated: every successful result has the keys findings and
\* suggestions, each the empty sequence when the payload lacks it.
C15_FindingsAndSuggestionsPresent ==
    \A c \in Calls :
        Succeeded(c) =>
            /\ HasKey(result[c].value, <<"findings">>)
            /\ HasKey(result[c].value, <<"suggestions">>)
            /\ ~HasKey(PayloadOf(c), <<"findings">>)
                   => result[c].value.d[<<"findings">>] = EmptyList
            /\ ~HasKey(PayloadOf(c), <<"suggestions">>)
                   => result[c].value.d[<<"suggestions">>] = EmptyList

\* C15 amended: every successful result has the key findings, the empty
\* sequence when the payload lacks it; it has the key suggestions exactly
\* when the payload has it, and then with the payload's value.
C15_FindingsDefaultedSuggestionsAsGiven ==
    \A c \in Calls :
        Succeeded(c) =>
            /\ HasKey(result[c].value, <<"findings">>)
            /\ ~HasKey(PayloadOf(c), <<"findings">>)
                   => result[c].value.d[<<"findings">>] = EmptyList
            /\ HasKey(result[c].value, <<"suggestions">>)
                   <=> HasKey(PayloadOf(c), <<"suggestions">>)
            /\ HasKey(PayloadOf(c), <<"suggestions">>)
                   => result[c].value.d[<<"suggestions">>]
                          = PayloadOf(c).d[<<"suggestions">>]

\* a payload with neither key came back with findings = [] and no suggestions
C15_Witness ==
    \E c \in Calls :
        /\ Succeeded(c)
        /\ ~HasKey(PayloadOf(c), <<"findings">>)
        /\ ~HasKey(PayloadOf(c), <<"suggestions">>)
        /\ result[c].value.d[<<"findings">>] = EmptyList
        /\ ~HasKey(result[c].value, <<"suggestions">>)

-----------------------------------------------------------------------------
(* What process_ai_response leaves alone *)

FindingFields ==
    { <<"rule_id">>, <<"domain">>, <<"judgment">>, <<"observation_reason">>,
      <<"standard_reason">>, <<"additional_question">>, <<"risk_score_components">> }

\* out is in with a risk_score: the same other keys, each with the same value
SameButScore(in, out) ==
    /\ DOMAIN out.d = DOMAIN in.d \cup {<<"risk_score">>}
    /\ \A k \in DOMAIN in.d \ {<<"risk_score">>} : out.d[k] = in.d[k]
    /\ \A k \in FindingFields : HasKey(out, k) <=> HasKey(in, k)

\* C16: in a successful result every finding is a finding of the payload
\* with, apart from risk_score, the same keys and the same values (rule_id,
\* domain, judgment whatever it is, observation_reason and standard_reason
\* each on its own, additional_question, risk_score_components), every
\* payload finding is there once, and suggestions is the payload's.
C16_Frame ==
    \A c \in Calls :
        Succeeded(c) =>
            LET in  == PayloadFindings(c)
                out == ResultFindings(c)
            IN /\ Len(out) = Len(in)
               /\ \E p \in Orderings(Len(in)) :
                     \A n \in 1..Len(out) : SameButScore(in[p[n]], out[n])
               /\ HasKey(PayloadOf(c), <<"suggestions">>) =>
                     /\ HasKey(result[c].value, <<"suggestions">>)
                     /\ result[c].value.d[<<"suggestions">>] = PayloadOf(c).d[<<"suggestions">>]

\* findings were reordered; one has a judgment outside the enumeration, one
\* an additional_question, and both reasons are there as given
C16_Witness ==
    \E c \in Calls :
        /\ Succeeded(c)
        /\ HasKey(PayloadOf(c), <<"suggestions">>)
        /\ RuleIdsOf(PayloadFindings(c)) = <<"R5", "R2", "R1">>
        /\ RuleIdsOf(ResultFindings(c)) = <<"R1", "R2", "R5">>
        /\ ResultFindings(c)[3].d[<<"judgment">>] = Word("other")
        /\ ResultFindings(c)[2].d[<<"additional_question">>] = Word("ask-R2")
        /\ ResultFindings(c)[2].d[<<"observation_reason">>] = Word("seen-R2")
        /\ ResultFindings(c)[2].d[<<"standard_reason">>] = Word("law-R2")

-----------------------------------------------------------------------------
(* Several calls of process_ai_response under way at once *)

NumCalls == 3

\* a payload with scene_analysis and two findings, and an empty object that
\* takes its scene tags from the caller
ConcurrentTexts ==
    { json_dumps(Payload(Absent, Present(FullScene), Present(TwoFindings), Absent)),
      json_dumps(EmptyDict) }

InitConcurrent ==
    InitWith(1..NumCalls, { f \in RuleFiles : f.exists }, ConcurrentTexts,
             {PyList(<<Word("office")>>)}, {PyNone})

SpecConcurrent == InitConcurrent /\ [][Next]_vars

SameInputs(a, b) ==
    /\ json_string[a] = json_string[b]
    /\ scene_tags[a] = scene_tags[b]
    /\ selected_rule_packs[a] = selected_rule_packs[b]

\* C17: two calls with the same text, the same fallback arguments and the
\* same rule document end with equal results, whatever other calls ran
\* before or in between.
C17_Deterministic ==
    \A a, b \in Calls : (Done(a) /\ Done(b) /\ SameInputs(a, b)) => result[a] = result[b]

\* two calls on the same payload and a third on another one all ended, the two
\* with the same successful result
C17_Witness ==
    \E a, b, o \in Calls :
        /\ a # b /\ SameInputs(a, b) /\ ~SameInputs(a, o)
        /\ Succeeded(a) /\ Succeeded(b) /\ Succeeded(o)
        /\ result[a] = result[b]
        /\ result[a].value.d[<<"applied_rules">>] # result[o].value.d[<<"applied_rules">>]

\* C18: in every interleaving of the calls, against one unchanged rule
\* document, each call ends with what it returns or raises when run alone.
C18_AsIfAlone ==
    \A c \in Calls :
        Done(c) => result[c] = process_ai_response(json_string[c], scene_tags[c],
                                                   selected_rule_packs[c], rule_file)

\* a call ended with a successful result while a call on the other payload
\* and a call on the same one were between their first and their last step
C18_Witness ==
    \E c, a, b \in Calls :
        /\ a # b /\ ~SameInputs(c, a) /\ SameInputs(c, b)
        /\ Succeeded(c) /\ Len(ResultFindings(c)) = 2
        /\ pc[a] \in {"rules", "findings", "score"}
        /\ pc[b] \in {"scene", "rules"}

-----------------------------------------------------------------------------
(* The order of the steps of one call *)

\* the places of a step in the history of a call
StepsAt(c, step) == { n \in 1..Len(log[c]) : log[c][n] = step }

\* the call ended where the text failed to parse or where the payload's error
\* was found
EndedEarly(c) == log[c][Len(log[c])] \in {"parse", "check_error"}

\* C19: a call that ends at the parse failure or at the upstream-error
\* short-circuit never reads the rule source and never computes a score;
\* every other call reads the rule source exactly once, after the scene
\* fields are set and before any finding is scored, also when there are
\* neither rule packs nor scene tags, and then the filter is not called.
C19_StepOrder ==
    \A c \in Calls :
        Done(c) =>
            IF EndedEarly(c)
            THEN StepsAt(c, "load_rules") = {} /\ StepsAt(c, "score") = {}
            ELSE /\ Cardinality(StepsAt(c, "load_rules")) = 1
                 /\ \A n \in StepsAt(c, "load_rules") :
                       /\ \E m \in StepsAt(c, "scene") : m < n
                       /\ \A m \in StepsAt(c, "score") : n < m
                 /\ (~Truthy(selected_rule_packs[c])
                        /\ ~Truthy(DictGet(data[c], <<"scene_tags">>, EmptyList)))
                       => StepsAt(c, "filter") = {}

-----------------------------------------------------------------------------
(* app/models.py: validate_model_parameters *)

AllDigits(s) == Len(s) > 0 /\ \A n \in 1..Len(s) : s[n] \in DOMAIN Digits

\* float(v): a float as it is, an int or bool as that number, a str by its
\* numeral (digits, digits with one decimal, inf, nan; ValueError on other
\* text), TypeError else
PyFloatOf(v) ==
    CASE v.t \in {"float", "inf", "nan"} -> Return(v)
      [] v.t = "int"  -> Return(PyFloat(10 * v.i))
      [] v.t = "bool" -> Return(PyFloat(IF v.b THEN 10 ELSE 0))
      [] v.t = "str"  ->
             IF AllDigits(v.s) THEN Return(PyFloat(10 * DecimalValue(v.s)))
             ELSE IF Len(v.s) >= 3 /\ v.s[Len(v.s) - 1] = "."
                     /\ AllDigits(SubSeq(v.s, 1, Len(v.s) - 2))
                     /\ v.s[Len(v.s)] \in DOMAIN Digits
                  THEN Return(PyFloat(10 * DecimalValue(SubSeq(v.s, 1, Len(v.s) - 2))
                                      + Digits[v.s[Len(v.s)]]))
             ELSE IF v.s = <<"inf">> THEN Return(PyInf)
             ELSE IF v.s = <<"nan">> THEN Return(PyNan)
             ELSE Raise("ValueError")
      [] OTHER        -> Raise("TypeError")

\* model.lower(), symbol by symbol
LowerSymbol(sym) ==
    CASE sym = "GPT-5" -> "gpt-5"
      [] sym = "-MINI" -> "-mini"
      [] OTHER         -> sym

Lower(name) == [n \in 1..Len(name) |-> LowerSymbol(name[n])]

\* lines 48 and 270: "gpt-5" in model.lower() or model == "gpt-5-mini"
IsGpt5(name) == IsSubstring(<<"gpt-5">>, Lower(name)) \/ name = <<"gpt-5", "-mini">>

\* lines 51-56 and 60-65: the value when it is one of the valid ones, else
\* "medium"
OneOf(v, valid) == IF v \in valid THEN v ELSE Word("medium")

ValidEfforts == { Word("minimal"), Word("low"), Word("medium"), Word("high") }

ValidVerbosities == { Word("low"), Word("medium"), Word("high") }

\* lines 69-78 and 97-106: int(params["max_tokens"]) when it is in
\* [1000, 8000], else 4000; ValueError and TypeError are caught
CheckedMaxTokens(v) ==
    LET r == PyIntOf(v) IN
    IF r.kind = "raise"
    THEN IF r.exc \in {"ValueError", "TypeError"} THEN Return(PyInt(4000)) ELSE r
    ELSE IF 1000 <= r.value /\ r.value <= 8000 THEN Return(PyInt(r.value))
    ELSE Return(PyInt(4000))

\* lines 85-94: float(params["temperature"]) when it is in [0.0, 2.0], else
\* 0.0; ValueError and TypeError are caught
CheckedTemperature(v) ==
    LET r == PyFloatOf(v) IN
    IF r.kind = "raise"
    THEN IF r.exc \in {"ValueError", "TypeError"} THEN Return(PyFloat(0)) ELSE r
    ELSE IF r.value.t = "float" /\ 0 <= r.value.tenths /\ r.value.tenths <= 20
         THEN Return(r.value)
    ELSE Return(PyFloat(0))

\* safe_params[key] = value when the key is in params
SafeEntry(params, key, value) ==
    IF HasKey(params, key) THEN key :> value ELSE <<>>

\* lines 34-108
validate_model_parameters(name, params) ==
    IF IsGpt5(name)
    THEN LET max_tokens == IF HasKey(params, <<"max_tokens">>)
                           THEN CheckedMaxTokens(params.d[<<"max_tokens">>])
                           ELSE Return(PyNone)
         IN IF max_tokens.kind = "raise" THEN max_tokens
            ELSE Return(PyDict(
                   (IF HasKey(params, <<"reasoning_effort">>)
                    THEN <<"reasoning_effort">> :>
                            OneOf(params.d[<<"reasoning_effort">>], ValidEfforts)
                    ELSE <<>>)
                   @@ (IF HasKey(params, <<"verbosity">>)
                       THEN <<"verbosity">> :>
                               OneOf(params.d[<<"verbosity">>], ValidVerbosities)
                       ELSE <<>>)
                   @@ SafeEntry(params, <<"max_tokens">>, max_tokens.value)))
    ELSE LET temperature == IF HasKey(params, <<"temperature">>)
                            THEN CheckedTemperature(params.d[<<"temperature">>])
                            ELSE Return(PyNone)
             max_tokens  == IF HasKey(params, <<"max_tokens">>)
                            THEN CheckedMaxTokens(params.d[<<"max_tokens">>])
                            ELSE Return(PyNone)
         IN IF temperature.kind = "raise" THEN temperature
            ELSE IF max_tokens.kind = "raise" THEN max_tokens
            ELSE Return(PyDict(SafeEntry(params, <<"temperature">>, temperature.value)
                               @@ SafeEntry(params, <<"max_tokens">>, max_tokens.value)))

-----------------------------------------------------------------------------
(* app/models.py: call_vision_api, and the analysis handler of app/main.py *)

\* an exception with the text str(e) gives, as a sequence of symbols
RaiseWith(e, detail) == [kind |-> "raise", exc |-> e, detail |-> detail]

\* the exception classes of the openai package under APIError, BadRequestError
\* among them
ApiErrorClasses ==
    { "APIError", "BadRequestError", "AuthenticationError", "RateLimitError",
      "APIConnectionError" }

\* the fixed openings of the three messages (lines 301, 305 and 309, Japanese
\* sentences: "API request error (bad parameter): ", "An OpenAI API error
\* occurred: ", "An unexpected error occurred: "), one symbol each
BadRequestPrefix == "API request error (bad parameter): "

ApiErrorPrefix == "An OpenAI API error occurred: "

UnexpectedPrefix == "An unexpected error occurred: "

\* json.dumps({"error": error_message}), error_message an f-string of a fixed
\* opening and str(e)
ErrorJson(prefix, detail) ==
    json_dumps(PyDict(<<"error">> :> PyStr(<<prefix>> \o detail)))

\* line 251: the key of MODEL_CONFIGS whose entry the call takes, the entry
\* of gpt-4.1-mini-2025-04-14 for a model that has none
ConfigKey(configs, name) ==
    IF name \in DOMAIN configs THEN name ELSE <<"gpt-4.1", "-mini-2025-04-14">>

\* d.update(other)
DictUpdate(d, other) == PyDict(other.d @@ d.d)

\* lines 251-255: model_config is the entry of MODEL_CONFIGS itself, not a
\* copy, so model_config.update(custom_params) changes MODEL_CONFIGS
UpdatedConfigs(configs, name, custom) ==
    IF Truthy(custom)
    THEN [configs EXCEPT ![ConfigKey(configs, name)] = DictUpdate(@, custom)]
    ELSE configs

\* lines 262-288: model, and of the validated parameters those of the
\* model's family
ApiParams(name, model_config) ==
    LET keys == IF IsSubstring(<<"gpt-5">>, Lower(name)) \/ name = <<"gpt-5", "-mini">>
                THEN { <<"reasoning_effort">>, <<"verbosity">>, <<"max_tokens">> }
                ELSE { <<"temperature">>, <<"max_tokens">> }
    IN PyDict((<<"model">> :> PyStr(name))
              @@ [k \in keys \cap DOMAIN model_config.d |-> model_config.d[k]])

\* lines 244-298, the body of the try: the parameters are validated, the
\* request is sent, and the arguments of the first tool call of the first
\* choice are read; a message without tool calls has tool_calls = None,
\* which has no item 0
VisionApiBody(validated, resp) ==
    CASE validated.kind = "raise"    -> RaiseWith(validated.exc, <<validated.exc>>)
      [] resp.kind = "raise"         -> RaiseWith(resp.exc, resp.detail)
      [] resp.kind = "no_tool_calls" ->
             RaiseWith("TypeError", <<"'NoneType' object is not subscriptable">>)
      [] resp.kind = "tool_call"     -> Return(resp.arguments)

\* handlers without the last one, `except Exception`
call_vision_apiNoCatchAll(validated, resp) ==
    LET r == VisionApiBody(validated, resp) IN
    IF r.kind = "return" THEN r
    ELSE IF r.exc = "BadRequestError" THEN Return(ErrorJson(BadRequestPrefix, r.detail))
    ELSE IF r.exc \in ApiErrorClasses THEN Return(ErrorJson(ApiErrorPrefix, r.detail))
    ELSE r

\* lines 243-311: the body and its three handlers, tried in order
call_vision_api(validated, resp) ==
    LET r == VisionApiBody(validated, resp) IN
    IF r.kind = "return" THEN r
    ELSE IF r.exc = "BadRequestError" THEN Return(ErrorJson(BadRequestPrefix, r.detail))
    ELSE IF r.exc \in ApiErrorClasses THEN Return(ErrorJson(ApiErrorPrefix, r.detail))
    ELSE Return(ErrorJson(UnexpectedPrefix, r.detail))

\* a handler that hands the chosen rule packs to process_ai_response
HandlerArgsWithPacks(selection) ==
    [scene_tags |-> PyNone, selected_rule_packs |-> selection]

\* main.py:233: process_ai_response(ai_response_json), both other arguments
\* left at their default None whatever st.session_state.rule_pack_selection is
HandlerArgs(selection) ==
    [scene_tags |-> PyNone, selected_rule_packs |-> PyNone]

\* main.py:226-233: ai_response_json = models.call_vision_api(...), and the
\* arguments process_ai_response is then called with
CallVisionApi(c) ==
    /\ pc[c] = "call_api"
    /\ Logged(c, <<"call_api">>)
    /\ LET configs      == UpdatedConfigs(MODEL_CONFIGS, model[c], custom_params[c])
           model_config == configs[ConfigKey(MODEL_CONFIGS, model[c])]
           validated    == validate_model_parameters(model[c], model_config)
           r            == call_vision_api(validated, response[c])
       IN
       /\ MODEL_CONFIGS' = configs
       /\ api_params' = IF validated.kind = "return"
                        THEN [api_params EXCEPT ![c] = ApiParams(model[c], validated.value)]
                        ELSE api_params
       /\ IF r.kind = "raise"
          THEN /\ Finish(c, Raise(r.exc))
               /\ UNCHANGED <<json_string, scene_tags, selected_rule_packs>>
          ELSE /\ json_string' = [json_string EXCEPT ![c] = r.value]
               /\ scene_tags' = [scene_tags EXCEPT ![c] =
                                    HandlerArgs(rule_pack_selection).scene_tags]
               /\ selected_rule_packs' = [selected_rule_packs EXCEPT ![c] =
                                    HandlerArgs(rule_pack_selection).selected_rule_packs]
               /\ pc' = [pc EXCEPT ![c] = "parse"]
               /\ UNCHANGED result
    /\ UNCHANGED <<rule_file, response, model, custom_params, rule_pack_selection,
                   stage1_scene, data, all_rules, findings, idx>>

\* str(e): nothing, or some text
Details == { <<>>, <<"Error code: 400">> }

\* payloads of the dashboard flow: those of RulesPayloads, one of the older
\* shape with scene_tags at the top level and no scene_analysis, and one whose
\* scene_analysis has no scene_tags
DashboardPayloads ==
    RulesPayloads
    \cup { PyDict((<<"scene_tags">> :> PyList(<<Word("kitchen")>>))
                  @@ (<<"findings">> :> EmptyList)),
           PyDict((<<"scene_analysis">> :> PyDict(<<"risk_context">> :> Word("scaffold")))
                  @@ (<<"findings">> :> EmptyList)) }

\* what the request can come to: an exception of the openai package, another
\* exception, a message without tool calls, or a tool call whose arguments are
\* a payload or a text cut short
ApiOutcomes ==
    { [kind |-> "raise", exc |-> e, detail |-> d] :
        e \in ApiErrorClasses \cup {"TypeError", "AttributeError", "IndexError"},
        d \in Details }
    \cup { [kind |-> "no_tool_calls"] }
    \cup { [kind |-> "tool_call", arguments |-> t] :
             t \in { json_dumps(p) : p \in DashboardPayloads } \cup MalformedTexts }

\* main.py:42: the models of the sidebar
DashboardModels == { <<"gpt-4.1", "-mini-2025-04-14">>, <<"gpt-4.1">>, <<"gpt-5", "-mini">> }

\* main.py:214-225: custom_params as the handler builds it, the session
\* state holding the values the widgets start with
DashboardParams(name) ==
    IF name = <<"gpt-5", "-mini">>
    THEN PyDict((<<"reasoning_effort">> :> Word("medium")) @@ (<<"verbosity">> :> Word("medium")))
    ELSE PyDict((<<"temperature">> :> PyFloat(0)) @@ (<<"max_tokens">> :> PyInt(4000)))

\* main.py:44: what the multiselect of rule packs can hold (its labels are
\* Japanese; "Labor" stands for the default choice): the default, nothing,
\* and two other packs
RulePackSelections ==
    { PyList(<<Word("Labor")>>), EmptyList, PyList(<<Word("Food"), Word("ISO")>>) }

\* main.py:226-233: the handler has the answer fetched and then processed,
\* with no fallback arguments
InitEndToEnd ==
    /\ rule_file \in RuleFiles
    /\ response \in [{1} -> ApiOutcomes]
    /\ json_string = [c \in {1} |-> <<>>]
    /\ scene_tags = [c \in {1} |-> Unset]
    /\ selected_rule_packs = [c \in {1} |-> Unset]
    /\ pc = [c \in {1} |-> "call_api"]
    /\ data = [c \in {1} |-> Unset]
    /\ all_rules = [c \in {1} |-> Unset]
    /\ findings = [c \in {1} |-> Unset]
    /\ idx = [c \in {1} |-> 0]
    /\ result = [c \in {1} |-> Unset]
    /\ log = [c \in {1} |-> <<>>]
    /\ MODEL_CONFIGS = DefaultModelConfigs
    /\ model \in [{1} -> DashboardModels]
    /\ custom_params = [c \in {1} |-> DashboardParams(model[c])]
    /\ api_params = [c \in {1} |-> Unset]
    /\ rule_pack_selection \in RulePackSelections
    /\ stage1_scene = [c \in {1} |-> Unset]

NextEndToEnd ==
    \/ \E c \in Calls : CallVisionApi(c)
    \/ Next

SpecEndToEnd == InitEndToEnd /\ [][NextEndToEnd]_vars

\* the request did not give tool-call arguments
ModelCallFailed(c) == response[c].kind \in {"raise", "no_tool_calls"}

\* C20: when the model call fails, by a bad request, an API error or any
\* other exception such as an answer without tool calls, call_vision_api
\* raises nothing and returns a JSON text of an object with the single key
\* error and a non-empty message, and process_ai_response on that text
\* returns that object as it is.
C20_ModelCallFailure ==
    \A c \in Calls :
        (ModelCallFailed(c) /\ pc[c] # "call_api") =>
            /\ Parses(c)
            /\ PayloadOf(c).t = "dict"
            /\ DOMAIN PayloadOf(c).d = {<<"error">>}
            /\ PayloadOf(c).d[<<"error">>].t = "str"
            /\ Len(PayloadOf(c).d[<<"error">>].s) > 0
            /\ Done(c) => result[c] = Return(PayloadOf(c))

\* an answer without tool calls ended as the returned error object, and the
\* rule source was not read
C20_Witness ==
    \E c \in Calls :
        /\ response[c].kind = "no_tool_calls"
        /\ Returned(c)
        /\ DOMAIN result[c].value.d = {<<"error">>}
        /\ result[c].value.d[<<"error">>].s[1] = UnexpectedPrefix
        /\ log[c] = <<"call_api", "parse", "check_error">>

-----------------------------------------------------------------------------
(* The shape of what load_rules_from_yaml returns *)

\* the call raised while the rules were read or filtered
FailedOnRules(c) ==
    Raised(c) /\ log[c][Len(log[c])] \in {"load_rules", "filter"}

\* C24: for every readable, syntactically valid rule document, also one
\* without the key rules, one whose rules entry is null and one whose top
\* level is no mapping, load_rules_from_yaml returns a sequence, and
\* process_ai_response does not fail over the rules it loaded.
C24_RulesAreASequence ==
    \A c \in Calls :
        (RulesLoaded(c) /\ rule_file.exists /\ rule_file.readable /\ rule_file.wellformed) =>
            /\ all_rules[c] # Unset
            /\ all_rules[c].t = "list"
            /\ ~FailedOnRules(c)

-----------------------------------------------------------------------------
(* validate_model_parameters on its own: one call on any parameters *)

\* the three configured models, a model the configuration does not know, and
\* a gpt-5 model written in capitals
ModelNames ==
    { <<"gpt-4.1", "-mini-2025-04-14">>, <<"gpt-4.1">>, <<"gpt-5", "-mini">>,
      <<"o3">>, <<"GPT-5", "-nano">> }

\* values a caller may give: in range, out of range, of another type, a
\* numeral as text, a float with a fraction, infinity and not-a-number
TemperatureValues ==
    { PyFloat(7), PyFloat(25), PyInt(1), PyStr(<<"1", ".", "5">>), Word("hot"), PyNan }

MaxTokensValues ==
    { PyInt(2000), PyInt(500), PyInt(8000), PyFloat(25007), PyStr(<<"2", "0", "0", "0">>),
      PyNone, PyBool(TRUE), PyInf }

EffortValues == { Word("minimal"), Word("extreme"), PyInt(3) }

VerbosityValues == { Word("high"), Word("minimal") }

ParamDicts ==
    { PyDict(WithOptional(WithOptional(WithOptional(WithOptional(EmptyDict,
          <<"temperature">>, t), <<"max_tokens">>, m), <<"reasoning_effort">>, e),
          <<"verbosity">>, v).d) :
        t \in {Absent} \cup { Present(x) : x \in TemperatureValues },
        m \in {Absent} \cup { Present(x) : x \in MaxTokensValues },
        e \in {Absent} \cup { Present(x) : x \in EffortValues },
        v \in {Absent} \cup { Present(x) : x \in VerbosityValues } }

\* lines 34-108: the whole call; custom_params holds the argument params
ValidateModelParameters(c) ==
    /\ pc[c] = "validate"
    /\ Logged(c, <<"validate">>)
    /\ Finish(c, validate_model_parameters(model[c], custom_params[c]))
    /\ UNCHANGED <<rule_file, json_string, scene_tags, selected_rule_packs, data, all_rules,
                   findings, idx, response, MODEL_CONFIGS, model, custom_params, api_params,
                   rule_pack_selection, stage1_scene>>

InitValidate ==
    /\ rule_file \in { f \in RuleFiles : f.exists }
    /\ json_string = [c \in {1} |-> <<>>]
    /\ scene_tags = [c \in {1} |-> PyNone]
    /\ selected_rule_packs = [c \in {1} |-> PyNone]
    /\ pc = [c \in {1} |-> "validate"]
    /\ data = [c \in {1} |-> Unset]
    /\ all_rules = [c \in {1} |-> Unset]
    /\ findings = [c \in {1} |-> Unset]
    /\ idx = [c \in {1} |-> 0]
    /\ result = [c \in {1} |-> Unset]
    /\ response = [c \in {1} |-> Unset]
    /\ log = [c \in {1} |-> <<>>]
    /\ MODEL_CONFIGS = DefaultModelConfigs
    /\ model \in [{1} -> ModelNames]
    /\ custom_params \in [{1} -> ParamDicts]
    /\ api_params = [c \in {1} |-> Unset]
    /\ rule_pack_selection = Unset
    /\ stage1_scene = [c \in {1} |-> Unset]

NextValidate == \E c \in Calls : ValidateModelParameters(c)

SpecValidate == InitValidate /\ [][NextValidate]_vars

ValidateDone(c) == Done(c) /\ log[c] = <<"validate">>

\* v is an integer from 1000 to 8000
TokensInRange(v) == v.t = "int" /\ 1000 <= v.i /\ v.i <= 8000

\* v is a float from 0.0 to 2.0
TemperatureInRange(v) == v.t = "float" /\ 0 <= v.tenths /\ v.tenths <= 20

\* the claim about one result `out` for the parameters `in` of model `name`
SafeParameters(name, in, out) ==
    /\ out.t = "dict"
    /\ DOMAIN out.d \subseteq DOMAIN in.d
    /\ HasKey(out, <<"max_tokens">>) =>
          /\ TokensInRange(out.d[<<"max_tokens">>])
          /\ LET n == PyIntOf(in.d[<<"max_tokens">>]) IN
             IF n.kind = "return" /\ 1000 <= n.value /\ n.value <= 8000
             THEN out.d[<<"max_tokens">>] = PyInt(n.value)
             ELSE out.d[<<"max_tokens">>] = PyInt(4000)
    /\ HasKey(out, <<"temperature">>) =>
          /\ TemperatureInRange(out.d[<<"temperature">>])
          /\ LET f == PyFloatOf(in.d[<<"temperature">>]) IN
             IF f.kind = "return" /\ TemperatureInRange(f.value)
             THEN out.d[<<"temperature">>] = f.value
             ELSE out.d[<<"temperature">>] = PyFloat(0)
    /\ HasKey(out, <<"reasoning_effort">>) =>
          /\ out.d[<<"reasoning_effort">>] \in ValidEfforts
          /\ in.d[<<"reasoning_effort">>] \notin ValidEfforts
                => out.d[<<"reasoning_effort">>] = Word("medium")
    /\ HasKey(out, <<"verbosity">>) =>
          /\ out.d[<<"verbosity">>] \in ValidVerbosities
          /\ in.d[<<"verbosity">>] \notin ValidVerbosities
                => out.d[<<"verbosity">>] = Word("medium")
    /\ IsSubstring(<<"gpt-5">>, Lower(name)) => ~HasKey(out, <<"temperature">>)
    /\ ~IsSubstring(<<"gpt-5">>, Lower(name)) =>
          ~HasKey(out, <<"reasoning_effort">>) /\ ~HasKey(out, <<"verbosity">>)

\* C22: for every model name and every parameter dictionary
\* validate_model_parameters returns only keys of the input and only values
\* in range: max_tokens an integer in [1000, 8000] (4000 when the input is
\* out of range or no integer), temperature in [0.0, 2.0] (else 0.0),
\* reasoning_effort and verbosity one of their valid words (else medium); no
\* temperature for a gpt-5 model, no reasoning_effort or verbosity for another.
C22_SafeParameters ==
    \A c \in Calls :
        ValidateDone(c) =>
            /\ Returned(c)
            /\ SafeParameters(model[c], custom_params[c], result[c].value)

\* ---------------------------------------------------------------------------
\* Several calls of call_vision_api in one process, sharing MODEL_CONFIGS
\* ---------------------------------------------------------------------------

NumApiCalls == 2

\* a model of each family with an entry in MODEL_CONFIGS, and one without
ApiModels == { <<"gpt-4.1">>, <<"gpt-5", "-mini">>, <<"o3">> }

\* custom_params of a call: absent, or a dict of some parameters
ApiCustomParams ==
    { PyNone,
      PyDict((<<"temperature">> :> PyFloat(15)) @@ (<<"max_tokens">> :> PyInt(2000))),
      PyDict(<<"reasoning_effort">> :> Word("high")) }

InitParams ==
    /\ rule_file \in { f \in RuleFiles : f.exists /\ f.readable /\ f.wellformed }
    /\ response = [c \in 1..NumApiCalls |-> [kind |-> "tool_call", arguments |-> json_dumps(EmptyDict)]]
    /\ json_string = [c \in 1..NumApiCalls |-> <<>>]
    /\ scene_tags = [c \in 1..NumApiCalls |-> Unset]
    /\ selected_rule_packs = [c \in 1..NumApiCalls |-> Unset]
    /\ pc = [c \in 1..NumApiCalls |-> "call_api"]
    /\ data = [c \in 1..NumApiCalls |-> Unset]
    /\ all_rules = [c \in 1..NumApiCalls |-> Unset]
    /\ findings = [c \in 1..NumApiCalls |-> Unset]
    /\ idx = [c \in 1..NumApiCalls |-> 0]
    /\ result = [c \in 1..NumApiCalls |-> Unset]
    /\ log = [c \in 1..NumApiCalls |-> <<>>]
    /\ MODEL_CONFIGS = DefaultModelConfigs
    /\ model \in [1..NumApiCalls -> ApiModels]
    /\ custom_params \in [1..NumApiCalls -> ApiCustomParams]
    /\ api_params = [c \in 1..NumApiCalls |-> Unset]
    /\ rule_pack_selection = EmptyList
    /\ stage1_scene = [c \in 1..NumApiCalls |-> Unset]

NextParams == \E c \in Calls : CallVisionApi(c)

SpecParams == InitParams /\ [][NextParams]_vars

\* the parameters a call sends for a model when nothing has been customised
DefaultParams(name) ==
    ApiParams(name, validate_model_parameters(name,
                        DefaultModelConfigs[ConfigKey(DefaultModelConfigs, name)]).value)

\* C21: call_vision_api leaves MODEL_CONFIGS as it was defined, and a call
\* without custom_params sends the original default parameters of its model,
\* whatever calls with custom_params were made before it
C21_DefaultsUnchanged ==
    /\ MODEL_CONFIGS = DefaultModelConfigs
    /\ \A c \in Calls :
          (pc[c] # "call_api" /\ custom_params[c] = PyNone)
              => api_params[c] = DefaultParams(model[c])

-----------------------------------------------------------------------------
(* The rule packs chosen in the dashboard *)

\* scene_analysis.scene_tags of the payload the model call returned, [] for a
\* payload without them
PayloadSceneTags(c) ==
    LET p == PayloadOf(c) IN
    IF HasKey(p, <<"scene_analysis">>) /\ p.d[<<"scene_analysis">>].t = "dict"
       /\ HasKey(p.d[<<"scene_analysis">>], <<"scene_tags">>)
    THEN p.d[<<"scene_analysis">>].d[<<"scene_tags">>]
    ELSE EmptyList

ViaDashboard(c) == Len(log[c]) > 0 /\ log[c][1] = "call_api"

\* C25: in the dashboard flow process_ai_response is called without fallback
\* scene tags and without rule packs, so in every successful result
\* applied_rules is the rule_ids of the rules with a cue among the payload's
\* scene_analysis.scene_tags, and [] when the payload has none, whatever
\* rule packs are selected in the UI.
C25_PacksNeverReachAssessment ==
    \A c \in Calls :
        (ViaDashboard(c) /\ Succeeded(c)) =>
            /\ scene_tags[c] = PyNone
            /\ selected_rule_packs[c] = PyNone
            /\ result[c].value.d[<<"applied_rules">>] =
                   IF Len(PayloadSceneTags(c).l) = 0 THEN EmptyList
                   ELSE PyList(IdsOf(SelectSeq(all_rules[c].l,
                            LAMBDA rule : CueMatches(rule, PayloadSceneTags(c)))))

\* the packs chosen would pass a rule of the file by its domain, the payload
\* has findings and no scene_analysis, and no rule is applied
C25_Witness ==
    \E c \in Calls :
        /\ ViaDashboard(c)
        /\ Succeeded(c)
        /\ rule_pack_selection = PyList(<<Word("Food"), Word("ISO")>>)
        /\ \E n \in 1..Len(all_rules[c].l) :
               PackMatches(all_rules[c].l[n], rule_pack_selection)
        /\ ~HasKey(PayloadOf(c), <<"scene_analysis">>)
        /\ PayloadOf(c).d[<<"scene_tags">>] = PyList(<<Word("kitchen")>>)
        /\ result[c].value.d[<<"applied_rules">>] = EmptyList

-----------------------------------------------------------------------------
(* two_stage_analysis.py: scene analysis, then risk analysis *)

\* the messages open with a Japanese sentence, "an error occurred in the
\* stage-1 analysis: " and the same for stage 2, written here in ASCII
Stage1ErrorPrefix == "stage 1 analysis failed: "

Stage2ErrorPrefix == "stage 2 analysis failed: "

\* {"error": f"...: {e}"}
ErrorObject(prefix, detail) == PyDict(<<"error">> :> PyStr(<<prefix>> \o detail))

\* client.chat.completions.create(...) and the arguments of the first tool
\* call of its answer (lines 134-142 and 179-187)
StageRequest(resp) ==
    CASE resp.kind = "raise"         -> RaiseWith(resp.exc, resp.detail)
      [] resp.kind = "no_tool_calls" ->
             RaiseWith("TypeError", <<"'NoneType' object is not subscriptable">>)
      [] resp.kind = "tool_call"     -> Return(resp.arguments)

\* lines 114-146: the value json.loads gives for the arguments, of whatever
\* type, or an error object for any exception
stage1_scene_analysis(resp) ==
    LET r == StageRequest(resp) IN
    IF r.kind = "raise" THEN ErrorObject(Stage1ErrorPrefix, r.detail)
    ELSE LET v == json_loads(r.value) IN
         IF v.kind = "raise" THEN ErrorObject(Stage1ErrorPrefix, <<v.exc>>)
         ELSE v.value

\* ', '.join(v): v is iterated and every item must be a str; the items are
\* returned, the text they are joined to being read by nobody
Join(v) ==
    LET it == Iterate(v) IN
    IF it.kind = "raise" THEN it
    ELSE IF \A n \in 1..Len(it.value) : it.value[n].t = "str" THEN Return(it.value)
    ELSE Raise("TypeError")

\* f"{v:.1%}": a number is formatted, a str has no format code '%', and
\* None, a list and a dict take no format string
FormatPercent(v) ==
    CASE v.t \in {"int", "float", "bool", "inf", "nan"} -> Return(v)
      [] v.t = "str"                                     -> Raise("ValueError")
      [] OTHER                                           -> Raise("TypeError")

\* lines 153-159: the f-string scene_context, evaluated before the try
scene_context(scene_analysis) ==
    IF scene_analysis.t # "dict" THEN Raise("AttributeError")
    ELSE LET tags     == Join(DictGet(scene_analysis, <<"scene_tags">>, EmptyList))
             elements == Join(DictGet(scene_analysis, <<"visual_elements">>, EmptyList))
             risks    == Join(DictGet(scene_analysis, <<"potential_risks">>, EmptyList))
             conf     == FormatPercent(DictGet(scene_analysis, <<"confidence">>, PyFloat(0)))
         IN IF tags.kind = "raise" THEN tags
            ELSE IF elements.kind = "raise" THEN elements
            ELSE IF risks.kind = "raise" THEN risks
            ELSE IF conf.kind = "raise" THEN conf
            ELSE Return(<<tags.value, elements.value, risks.value, conf.value>>)

\* lines 148-198: scene_context, then the try: request, json.loads, the
\* merged object, and an error object for any exception inside the try
stage2_risk_analysis(scene_analysis, resp) ==
    LET ctx == scene_context(scene_analysis) IN
    IF ctx.kind = "raise" THEN Raise(ctx.exc)
    ELSE LET r == StageRequest(resp) IN
         IF r.kind = "raise" THEN Return(ErrorObject(Stage2ErrorPrefix, r.detail))
         ELSE LET v == json_loads(r.value) IN
              IF v.kind = "raise" THEN Return(ErrorObject(Stage2ErrorPrefix, <<v.exc>>))
              ELSE IF v.value.t # "dict"
                   THEN Return(ErrorObject(Stage2ErrorPrefix, <<"AttributeError">>))
              ELSE Return(PyDict(
                       (<<"scene_analysis">> :> scene_analysis)
                       @@ (<<"findings">> :> DictGet(v.value, <<"findings">>, EmptyList))
                       @@ (<<"suggestions">> :> DictGet(v.value, <<"suggestions">>, EmptyList))))

\* line 205: scene_analysis = stage1_scene_analysis(...)
Stage1SceneAnalysis(c) ==
    /\ pc[c] = "stage1"
    /\ Logged(c, <<"stage1">>)
    /\ stage1_scene' = [stage1_scene EXCEPT ![c] = stage1_scene_analysis(response[c].stage1)]
    /\ pc' = [pc EXCEPT ![c] = "check_stage1"]
    /\ UNCHANGED <<rule_file, json_string, scene_tags, selected_rule_packs, data, all_rules,
                   findings, idx, result, response, MODEL_CONFIGS, model, custom_params,
                   api_params, rule_pack_selection>>

\* lines 207-208: if "error" in scene_analysis: return scene_analysis
CheckStage1(c) ==
    /\ pc[c] = "check_stage1"
    /\ Logged(c, <<"check_stage1">>)
    /\ LET found == PyIn(Word("error"), stage1_scene[c]) IN
       IF found.kind = "raise" THEN Finish(c, Raise(found.exc))
       ELSE IF found.value THEN Finish(c, Return(stage1_scene[c]))
       ELSE pc' = [pc EXCEPT ![c] = "stage2"] /\ UNCHANGED result
    /\ UNCHANGED <<rule_file, json_string, scene_tags, selected_rule_packs, data, all_rules,
                   findings, idx, response, apiVars>>

\* lines 211-216: detailed_analysis = stage2_risk_analysis(...), returned
\* with or without a key error
Stage2RiskAnalysis(c) ==
    /\ pc[c] = "stage2"
    /\ Logged(c, <<"stage2">>)
    /\ Finish(c, stage2_risk_analysis(stage1_scene[c], response[c].stage2))
    /\ UNCHANGED <<rule_file, json_string, scene_tags, selected_rule_packs, data, all_rules,
                   findings, idx, response, apiVars>>

\* a scene as the tool schema of stage 1 describes it
SchemaScene ==
    PyDict((<<"scene_tags">> :> PyList(<<Word("office")>>))
           @@ (<<"visual_elements">> :> PyList(<<Word("desk"), Word("monitor")>>))
           @@ (<<"potential_risks">> :> EmptyList)
           @@ (<<"confidence">> :> PyFloat(9)))

\* what the arguments of the stage-1 tool call may decode to: a scene of the
\* schema, objects lacking fields or with fields of another type, an object
\* with a key error, and values that are no object
Stage1Values ==
    { SchemaScene, EmptyDict,
      PyDict(<<"scene_tags">> :> PyNone),
      PyDict(<<"scene_tags">> :> PyList(<<PyInt(1)>>)),
      PyDict(<<"confidence">> :> Word("0.9")),
      PyDict(<<"confidence">> :> PyNone),
      PyDict(<<"error">> :> Word("no image")),
      EmptyList, PyList(<<Word("error")>>), Word("text"), PyStr(<<"an ", "error">>),
      PyInt(3), PyNone }

\* what the arguments of the stage-2 tool call may decode to
Stage2Values ==
    { PyDict((<<"findings">> :> PyList(<<Finding("R1", "noncompliant",
                                                 Components(PyInt(3), PyInt(3)))>>))
             @@ (<<"suggestions">> :> Suggestions)),
      EmptyDict, PyDict(<<"findings">> :> PyNone), EmptyList, PyNone }

\* a request that fails, an answer without tool calls, arguments that are
\* JSON and arguments cut short
StageOutcomes(values) ==
    { [kind |-> "raise", exc |-> e, detail |-> <<"Error code: 400">>] :
        e \in {"APIError", "IndexError"} }
    \cup { [kind |-> "no_tool_calls"] }
    \cup { [kind |-> "tool_call", arguments |-> t] :
             t \in { json_dumps(v) : v \in values }
                   \cup { << Punct("{"), Lit(Word("scene_tags")) >> } }

InitTwoStage ==
    /\ rule_file \in { f \in RuleFiles : f.exists }
    /\ response \in [{1} -> [stage1 : StageOutcomes(Stage1Values),
                              stage2 : StageOutcomes(Stage2Values)]]
    /\ json_string = [c \in {1} |-> <<>>]
    /\ scene_tags = [c \in {1} |-> Unset]
    /\ selected_rule_packs = [c \in {1} |-> Unset]
    /\ pc = [c \in {1} |-> "stage1"]
    /\ data = [c \in {1} |-> Unset]
    /\ all_rules = [c \in {1} |-> Unset]
    /\ findings = [c \in {1} |-> Unset]
    /\ idx = [c \in {1} |-> 0]
    /\ result = [c \in {1} |-> Unset]
    /\ log = [c \in {1} |-> <<>>]
    /\ NoModelCall({1})

NextTwoStage ==
    \/ \E c \in Calls : Stage1SceneAnalysis(c)
    \/ \E c \in Calls : CheckStage1(c)
    \/ \E c \in Calls : Stage2RiskAnalysis(c)

SpecTwoStage == InitTwoStage /\ [][NextTwoStage]_vars

Stage2Invoked(c) == \E n \in 1..Len(log[c]) : log[c][n] = "stage2"

\* the stage-2 request was answered by a tool call whose arguments are an object
Stage2Answered(c) ==
    /\ response[c].stage2.kind = "tool_call"
    /\ json_loads(response[c].stage2.arguments).kind = "return"
    /\ json_loads(response[c].stage2.arguments).value.t = "dict"

\* C23: stage 2 is invoked only after stage 1 returned a value without a key
\* error; an error object of stage 1 is returned as it is and stage 2 is not
\* invoked; when both stages succeed the result's scene_analysis is stage 1's
\* output and the result has no key error; and when stage 2 is invoked and
\* does not succeed the result is an object whose only key is error.
C23_TwoStageOrder ==
    \A c \in Calls :
        /\ Stage2Invoked(c) => ~HasKey(stage1_scene[c], <<"error">>)
        /\ (Done(c) /\ HasKey(stage1_scene[c], <<"error">>)) =>
               (result[c] = Return(stage1_scene[c]) /\ ~Stage2Invoked(c))
        /\ (Done(c) /\ Stage2Invoked(c)) =>
               /\ result[c].kind = "return"
               /\ result[c].value.t = "dict"
               /\ IF Stage2Answered(c)
                  THEN /\ ~HasKey(result[c].value, <<"error">>)
                       /\ result[c].value.d[<<"scene_analysis">>] = stage1_scene[c]
                  ELSE DOMAIN result[c].value.d = { <<"error">> }
====
